---- MODULE Spec2Model ----
(***************************************************************************)
(* DiskSyncPro: the reconciliation engine of disk_sync_pro.py as a state   *)
(* machine.  One job (source tree, destination tree, mode, verify) is run  *)
(* several times by perform_backup: the planner walks the source and       *)
(* enqueues copy tasks, worker threads drain the queue through             *)
(* copy_with_retry, the cleanup pass walks the destination, the snapshot   *)
(* stage marks success; a stage exception replays the journal backwards.   *)
(* rollback_journal can also be applied to the persisted journal of the    *)
(* last run (main_rollback).                                               *)
(*                                                                         *)
(* Files are content tokens.  "new" is the content every source file has,  *)
(* "old" a different content with a different size/mtime stamp, "bad" a    *)
(* copy whose bytes differ from the source although copy2 gave it the      *)
(* source's size and mtime, "meta" the content of a state file, "none" an  *)
(* absent file.                                                            *)
(***************************************************************************)
EXTENDS Integers, Sequences, FiniteSets, TLC

\* ------------------------------------------------------------------ bounds
MaxRuns == 2
NumWorkers == 1

\* ------------------------------------------------------- program constants
MAX_COPY_RETRY == 3

Workers == 1..NumWorkers
Modes == {"clone", "sync", "safety_net"}
None == "none"

\* ------------------------------------------------------------- source tree
\* The source tree of the job, in the top-down order os.walk visits it.
SrcWalk == <<".", "b", "e">>

\* The file names os.walk lists for a source directory (relative paths).
SrcFilesIn(d) ==
  CASE d = "." -> <<"t.tmp", "a.txt">>
    [] d = "b" -> <<"b/c.txt">>
    [] OTHER   -> <<>>

SeqRange(s) == {s[i] : i \in 1..Len(s)}
SrcDirs == SeqRange(SrcWalk)
SrcFiles == UNION {SeqRange(SrcFilesIn(d)) : d \in SrcDirs}

\* job.exclude = ["*.tmp"]: path_matches_patterns on a relative path.
path_matches_patterns(p) == p \in {"t.tmp"}

\* Relative paths that may hold a regular file under the destination root,
\* outside .Rollback and .SafetyNet.  MetaJournal is the copy of the run's
\* journal that save_journal writes under <dst>/.DiskSyncPro.
MetaJournal == ".DiskSyncPro/journal.json"
MetaDir == ".DiskSyncPro"
SafetyNetDir == ".SafetyNet"
DstPaths == SrcFiles \cup {"stale.txt", MetaJournal}

\* Path.parent of a relative path ("." is the destination root itself).
Parent(p) ==
  CASE p = "b/c.txt"   -> "b"
    [] p = MetaJournal -> MetaDir
    [] OTHER           -> "."

\* The reserved trees of the specification: a path under .DiskSyncPro
\* (.Rollback and .SafetyNet are kept apart, in the variable backups).
Reserved(p) == Parent(p) = MetaDir

\* st_size and int(st_mtime) of a file with the given content: copy2 gives a
\* copy the source's stamp whatever bytes reached the disk.
Stamp(c) == IF c = "old" THEN 1 ELSE 2

\* is_same_file(src, dst): the source file always exists with content "new".
is_same_file(dstContent) ==
  /\ dstContent # None
  /\ Stamp(dstContent) = Stamp("new")

VARIABLES
  mode, verify,          \* the job: job.mode, job.verify
  run, dryRun, resume,   \* number of the current run and its two flags
  opc,                   \* where perform_backup (the orchestrator thread) is
  sdir, sfile, dfq,      \* planner: index in SrcWalk, index in the file list, dir_files_queued
  cancelled, cancelEvent,\* the local flag and the Event shared with the workers
  queue, unfinished,     \* task_queue: its items, and its unfinished_tasks counter
  wk,                    \* worker threads: pc, the task in hand, copy_with_retry's locals
  dfs, ddirs,            \* destination: content of every path, existing directories
  backups,               \* the files under the run's rollback vault / SafetyNet, by origin path
  jops, jstatus,         \* journal.ops, journal.status (in memory)
  pjops, pjstatus,       \* the journal file on disk
  cp, pcp,               \* the checkpoint dict (or NoCp), the checkpoint file (or NoCp)
  stats,                 \* Stats
  rbIdx,                 \* rollback_journal: index of the next op to reverse
  hist                   \* history: what the run did, for stating the properties

vars == <<mode, verify, run, dryRun, resume, opc, sdir, sfile, dfq, cancelled,
          cancelEvent, queue, unfinished, wk, dfs, ddirs, backups, jops, jstatus,
          pjops, pjstatus, cp, pcp, stats, rbIdx, hist>>

NoCp == [status |-> "absent", processed |-> {}, dirs |-> {}, total |-> 0]

ZeroStats == [created_files |-> 0, replaced_files |-> 0, deleted_files |-> 0,
              safetynet_files |-> 0, created_dirs |-> 0, skipped_same |-> 0,
              skipped_excluded |-> 0, copy_failed |-> 0]

IdleWorker == [pc |-> "stopped", task |-> None, action |-> None, attempt |-> 0]

JournalOp(a, t, b) == [action |-> a, target |-> t, backup |-> b]

\* The destinations a job may start from: empty, or holding an older a.txt,
\* a file the source does not have and a file matching the exclude pattern.
EmptyDst == [p \in DstPaths |-> None]
InitialDsts == {EmptyDst,
                [EmptyDst EXCEPT !["a.txt"] = "old", !["stale.txt"] = "old",
                                 !["t.tmp"] = "old"]}

\* A destination that is not empty also holds a directory, z, that the source
\* does not have.
InitialDirs(files) == IF files = EmptyDst THEN {} ELSE {"z"}

NewHist == [pre |-> EmptyDst, wmut |-> {}, mutated |-> {}, cleanup |-> FALSE,
            snapshot |-> FALSE, rollback |-> 0, chain |-> FALSE, prevClean |-> FALSE,
            nobackup |-> FALSE, moveFailed |-> FALSE,
            raised |-> FALSE, rbLen |-> 0, rbSeq |-> <<>>, rbFailed |-> FALSE,
            failed |-> {}, emitted |-> "none", quarantined |-> {},
            commits |-> <<>>, stale |-> {}]

Init ==
  /\ mode \in Modes
  /\ verify \in BOOLEAN
  /\ run = 0 /\ dryRun = FALSE /\ resume = FALSE
  /\ opc = "idle"
  /\ sdir = 0 /\ sfile = 0 /\ dfq = 0
  /\ cancelled = FALSE /\ cancelEvent = FALSE
  /\ queue = <<>> /\ unfinished = 0
  /\ wk = [w \in Workers |-> IdleWorker]
  /\ dfs \in InitialDsts
  /\ ddirs = InitialDirs(dfs)
  /\ backups = EmptyDst
  /\ jops = <<>> /\ jstatus = "none"
  /\ pjops = <<>> /\ pjstatus = "none"
  /\ cp = NoCp /\ pcp = NoCp
  /\ stats = ZeroStats
  /\ rbIdx = 0
  /\ hist = NewHist

\* ------------------------------------------------------------ state files
\* load_or_init_checkpoint followed by the resume / fresh branch of
\* perform_backup: what cp holds before the initial save_checkpoint.
load_or_init_checkpoint(file, isResume) ==
  IF isResume /\ file.status = "incomplete"
  THEN [status |-> "incomplete", processed |-> file.processed,
        dirs |-> file.dirs, total |-> file.total]
  ELSE [status |-> "incomplete", processed |-> {}, dirs |-> {}, total |-> 0]

\* save_journal: the journal file takes the in-memory journal, and a copy is
\* written under <dst>/.DiskSyncPro (get_dest_meta_dir creates the directory).
save_journal(status, ops) ==
  /\ pjstatus' = status
  /\ pjops' = ops

WithMetaJournal(files) == [files EXCEPT ![MetaJournal] = "meta"]

\* ------------------------------------------------------------ perform_backup
\* perform_backup up to the start of the SCAN stage: the destination root and
\* the rollback vault are created, the journal is prepared and saved, the
\* checkpoint is loaded (never in a dry-run) and saved, the workers start.
StartRun(isDry, isResume) ==
  /\ opc \in {"idle", "done", "rolledback"}
  /\ run < MaxRuns
  /\ run' = run + 1
  /\ dryRun' = isDry
  /\ resume' = isResume
  /\ jops' = <<>> /\ jstatus' = "pending"
  /\ save_journal("pending", <<>>)
  /\ dfs' = WithMetaJournal(dfs)
  /\ ddirs' = ddirs \cup {MetaDir}
  /\ backups' = EmptyDst
  /\ stats' = ZeroStats
  /\ IF isDry
     THEN /\ cp' = NoCp
          /\ pcp' = pcp
     ELSE /\ cp' = load_or_init_checkpoint(pcp, isResume)
          /\ pcp' = load_or_init_checkpoint(pcp, isResume)
  /\ cancelled' = FALSE /\ cancelEvent' = FALSE
  /\ queue' = <<>> /\ unfinished' = 0
  /\ wk' = [w \in Workers |-> [IdleWorker EXCEPT !.pc = "idle"]]
  /\ opc' = "scan" /\ sdir' = 1 /\ sfile' = 0 /\ dfq' = 0
  /\ rbIdx' = 0
  /\ hist' = [NewHist EXCEPT
                !.pre = dfs,
                !.stale = IF isDry THEN {}
                          ELSE {f \in load_or_init_checkpoint(pcp, isResume).processed :
                                  ~is_same_file(dfs[f])},
                !.prevClean = /\ opc = "done" /\ jstatus = "success"
                              /\ ~dryRun /\ ~resume /\ stats.copy_failed = 0
                              /\ ~hist.moveFailed,
                !.chain = /\ ~isDry
                          /\ \/ ~isResume
                             \/ hist.chain /\ jstatus = "cancelled" /\ opc = "done"]
  /\ UNCHANGED <<mode, verify>>

\* The planner leaves directory number sdir for directory number next, or
\* leaves the walk.
GoToDir(next) ==
  IF next > Len(SrcWalk)
  THEN opc' = "postscan" /\ sdir' = next /\ sfile' = 0
  ELSE opc' = "scan" /\ sdir' = next /\ sfile' = 0

\* dirs[:] = [] on a completed directory: the walk skips its whole subtree.
AfterSubtree(i) == IF SrcWalk[i] = "." THEN Len(SrcWalk) + 1 ELSE i + 1

\* "if cp is not None and dir_files_queued == 0 and len(files) > 0":
\* the directory is added to processed_dirs.
PromoteDir(c, d, queued) ==
  IF ~dryRun /\ queued = 0 /\ Len(SrcFilesIn(d)) > 0
  THEN [c EXCEPT !.dirs = @ \cup {d}]
  ELSE c

\* Top of the os.walk loop for one source directory: prune a completed
\* directory, poll the cancel key, ensure_dir.
ScanDirSkip ==
  /\ opc = "scan" /\ sfile = 0
  /\ ~dryRun /\ SrcWalk[sdir] \in cp.dirs
  /\ GoToDir(AfterSubtree(sdir))
  /\ UNCHANGED <<mode, verify, run, dryRun, resume, dfq, cancelled, cancelEvent,
                 queue, unfinished, wk, dfs, ddirs, backups, jops, jstatus,
                 pjops, pjstatus, cp, pcp, stats, rbIdx, hist>>

ScanDirCancel ==
  /\ opc = "scan" /\ sfile = 0
  /\ ~(~dryRun /\ SrcWalk[sdir] \in cp.dirs)
  /\ cancelEvent' = TRUE /\ cancelled' = TRUE
  /\ opc' = "postscan"
  /\ UNCHANGED <<mode, verify, run, dryRun, resume, sdir, sfile, dfq,
                 queue, unfinished, wk, dfs, ddirs, backups, jops, jstatus,
                 pjops, pjstatus, cp, pcp, stats, rbIdx, hist>>

\* ensure_dir(dest_root, journal, stats, dry_run) and the entry of the file loop.
EnterFiles(d) ==
  IF Len(SrcFilesIn(d)) = 0
  THEN GoToDir(sdir + 1) /\ dfq' = 0
  ELSE opc' = "scan" /\ sdir' = sdir /\ sfile' = 1 /\ dfq' = 0

ScanDirEnter ==
  /\ opc = "scan" /\ sfile = 0
  /\ ~(~dryRun /\ SrcWalk[sdir] \in cp.dirs)
  /\ LET d == SrcWalk[sdir] IN
     /\ IF d = "." \/ d \in ddirs \/ dryRun
        THEN UNCHANGED <<ddirs, jops, stats, hist>>
        ELSE /\ ddirs' = ddirs \cup {d}
             /\ jops' = Append(jops, JournalOp("create_dir", d, FALSE))
             /\ stats' = [stats EXCEPT !.created_dirs = @ + 1]
             /\ hist' = [hist EXCEPT !.mutated = @ \cup {d},
                     !.commits = Append(@, JournalOp("create_dir", d, FALSE))]
     /\ EnterFiles(d)
  /\ UNCHANGED <<mode, verify, run, dryRun, resume, cancelled, cancelEvent,
                 queue, unfinished, wk, dfs, backups, jstatus,
                 pjops, pjstatus, cp, pcp, rbIdx>>

\* An exception leaves the try block of perform_backup: the except handler
\* calls rollback_journal, whose loop starts from the last of the n ops the
\* journal holds at that moment.
Raised(h, n) == [h EXCEPT !.raised = TRUE, !.rollback = @ + 1, !.rbLen = n]

\* An exception in the scan stage that is handled without a replay.
ScanDirFailNoReplay ==
  /\ opc = "scan" /\ sfile = 0
  /\ ~(~dryRun /\ SrcWalk[sdir] \in cp.dirs)
  /\ ~dryRun /\ SrcWalk[sdir] # "." /\ SrcWalk[sdir] \notin ddirs
  /\ opc' = "finally"
  /\ hist' = [hist EXCEPT !.raised = TRUE]
  /\ UNCHANGED <<mode, verify, run, dryRun, resume, sdir, sfile, dfq, cancelled,
                 cancelEvent, queue, unfinished, wk, dfs, ddirs, backups, jops,
                 jstatus, pjops, pjstatus, cp, pcp, stats, rbIdx>>

\* path.mkdir raises in ensure_dir: the exception leaves the try block.
ScanDirFail ==
  /\ opc = "scan" /\ sfile = 0
  /\ ~(~dryRun /\ SrcWalk[sdir] \in cp.dirs)
  /\ ~dryRun /\ SrcWalk[sdir] # "." /\ SrcWalk[sdir] \notin ddirs
  /\ opc' = "rollback"
  /\ rbIdx' = Len(jops)
  /\ hist' = Raised(hist, Len(jops))
  /\ UNCHANGED <<mode, verify, run, dryRun, resume, sdir, sfile, dfq, cancelled,
                 cancelEvent, queue, unfinished, wk, dfs, ddirs, backups, jops,
                 jstatus, pjops, pjstatus, cp, pcp, stats>>

\* End of one iteration of "for file in files": the next file, or the
\* promotion of the directory and the next directory.
NextFile(d, queued) ==
  IF sfile < Len(SrcFilesIn(d))
  THEN /\ opc' = "scan" /\ sdir' = sdir /\ sfile' = sfile + 1
       /\ cp' = cp
  ELSE /\ GoToDir(sdir + 1)
       /\ cp' = PromoteDir(cp, d, queued)

\* The cancel key is seen in the file loop: break, then the promotion test,
\* then "if cancelled: break".
ScanFileCancel ==
  /\ opc = "scan" /\ sfile > 0
  /\ cancelEvent' = TRUE /\ cancelled' = TRUE
  /\ cp' = PromoteDir(cp, SrcWalk[sdir], dfq)
  /\ opc' = "postscan"
  /\ UNCHANGED <<mode, verify, run, dryRun, resume, sdir, sfile, dfq,
                 queue, unfinished, wk, dfs, ddirs, backups, jops, jstatus,
                 pjops, pjstatus, pcp, stats, rbIdx, hist>>

\* One file of the directory: excluded, already in cp["processed"], or enqueued.
ScanFile ==
  /\ opc = "scan" /\ sfile > 0
  /\ LET d == SrcWalk[sdir]
         f == SrcFilesIn(d)[sfile] IN
     IF path_matches_patterns(f)
     THEN /\ stats' = [stats EXCEPT !.skipped_excluded = @ + 1]
          /\ NextFile(d, dfq)
          /\ UNCHANGED <<dfq, queue, unfinished>>
     ELSE IF ~dryRun /\ f \in cp.processed
     THEN /\ NextFile(d, dfq)
          /\ UNCHANGED <<dfq, queue, unfinished, stats>>
     ELSE /\ queue' = Append(queue, f)
          /\ unfinished' = unfinished + 1
          /\ dfq' = dfq + 1
          /\ NextFile(d, dfq + 1)
          /\ UNCHANGED stats
  /\ UNCHANGED <<mode, verify, run, dryRun, resume, cancelled, cancelEvent,
                 wk, dfs, ddirs, backups, jops, jstatus,
                 pjops, pjstatus, pcp, rbIdx, hist>>

\* ------------------------------------------------------------------ workers
\* add_processed_file_safe(rel_path) on the checkpoint dict (a no-op when
\* cp is None, as in a dry-run, or when the path is already recorded).
add_processed_file_safe(c, f) ==
  IF dryRun \/ f \in c.processed
  THEN c
  ELSE [c EXCEPT !.processed = @ \cup {f}, !.total = @ + 1]

\* "finally: task_queue.task_done()" and the top of the worker loop: with the
\* cancel event set the worker empties the queue (get_nowait + task_done) and
\* leaves; otherwise it blocks in task_queue.get.
LoopTop(w, seesCancel) ==
  IF seesCancel
  THEN /\ wk' = [wk EXCEPT ![w] = [IdleWorker EXCEPT !.pc = "exited"]]
       /\ queue' = <<>>
       /\ unfinished' = unfinished - 1 - Len(queue)
  ELSE /\ wk' = [wk EXCEPT ![w] = [IdleWorker EXCEPT !.pc = "idle"]]
       /\ queue' = queue
       /\ unfinished' = unfinished - 1

\* task_queue.get(timeout=0.5) returns a task.
WGet(w) ==
  /\ wk[w].pc = "idle"
  /\ queue # <<>>
  /\ wk' = [wk EXCEPT ![w].pc = "got", ![w].task = Head(queue)]
  /\ queue' = Tail(queue)
  /\ UNCHANGED <<mode, verify, run, dryRun, resume, opc, sdir, sfile, dfq,
                 cancelled, cancelEvent, unfinished, dfs, ddirs, backups, jops,
                 jstatus, pjops, pjstatus, cp, pcp, stats, rbIdx, hist>>

\* task_queue.get raises Empty and the cancel event is set: the worker leaves.
WExit(w) ==
  /\ wk[w].pc = "idle"
  /\ queue = <<>>
  /\ cancelEvent
  /\ wk' = [wk EXCEPT ![w].pc = "exited"]
  /\ UNCHANGED <<mode, verify, run, dryRun, resume, opc, sdir, sfile, dfq,
                 cancelled, cancelEvent, queue, unfinished, dfs, ddirs, backups,
                 jops, jstatus, pjops, pjstatus, cp, pcp, stats, rbIdx, hist>>

\* A dequeued task while the cancel event is set: "continue", nothing is done
\* for the task.
WSkipCancelled(w) ==
  /\ wk[w].pc = "got"
  /\ cancelEvent
  /\ LoopTop(w, TRUE)
  /\ UNCHANGED <<mode, verify, run, dryRun, resume, opc, sdir, sfile, dfq,
                 cancelled, cancelEvent, dfs, ddirs, backups, jops,
                 jstatus, pjops, pjstatus, cp, pcp, stats, rbIdx, hist>>

\* The same-file branch of the worker: skipped_same, checkpoint, next task.
WSkipSame(w) ==
  /\ wk[w].pc = "got"
  /\ ~cancelEvent
  /\ is_same_file(dfs[wk[w].task])
  /\ stats' = [stats EXCEPT !.skipped_same = @ + 1]
  /\ cp' = add_processed_file_safe(cp, wk[w].task)
  /\ LoopTop(w, FALSE)
  /\ UNCHANGED <<mode, verify, run, dryRun, resume, opc, sdir, sfile, dfq,
                 cancelled, cancelEvent, dfs, ddirs, backups, jops,
                 jstatus, pjops, pjstatus, pcp, rbIdx, hist>>

\* copy_with_retry up to the retry loop: the action is chosen from
\* dst.exists(), and before a replace the pre-image is copied into the
\* rollback vault; copied = FALSE is shutil.copy2 raising there, which is
\* logged and ignored.  In a dry-run the op and the counter are recorded at
\* once and nothing is copied.
CopyAction(content) == IF content # None THEN "replace_file" ELSE "create_file"

\* A counter update that books every copy as a created file.
CountCopyAsCreated(s, action) == [s EXCEPT !.created_files = @ + 1]

CountCopy(s, action) ==
  IF action = "create_file"
  THEN [s EXCEPT !.created_files = @ + 1]
  ELSE [s EXCEPT !.replaced_files = @ + 1]

WBeginCopy(w, copied) ==
  /\ wk[w].pc = "got"
  /\ ~cancelEvent
  /\ ~is_same_file(dfs[wk[w].task])
  /\ LET t == wk[w].task
         action == CopyAction(dfs[t]) IN
     IF dryRun
     THEN /\ copied
          /\ jops' = Append(jops, JournalOp(action, t, FALSE))
          /\ stats' = CountCopy(stats, action)
          /\ LoopTop(w, FALSE)
          /\ UNCHANGED <<backups, hist>>
     ELSE /\ copied \/ action = "replace_file"
          /\ backups' = IF action = "replace_file" /\ copied
                        THEN [backups EXCEPT ![t] = dfs[t]]
                        ELSE backups
          /\ hist' = IF copied THEN hist ELSE [hist EXCEPT !.nobackup = TRUE]
          /\ wk' = [wk EXCEPT ![w].pc = "copy", ![w].action = action,
                              ![w].attempt = 1]
          /\ UNCHANGED <<jops, stats, queue, unfinished>>
  /\ UNCHANGED <<mode, verify, run, dryRun, resume, opc, sdir, sfile, dfq,
                 cancelled, cancelEvent, dfs, ddirs,
                 jstatus, pjops, pjstatus, cp, pcp, rbIdx>>

\* One attempt of the retry loop.  outcome "ok": atomic_copy renamed the copy
\* into place and the verification (if any) passed.  "io": atomic_copy raised
\* before os.replace.  "hash": the copy was renamed into place and the hashes
\* differ (verify only).  After MAX_COPY_RETRY failures the file is counted in
\* copy_failed and the task ends without a journal op.
AfterRename(files, t, outcome) ==
  CASE outcome = "ok"   -> [files EXCEPT ![t] = "new"]
    [] outcome = "hash" -> [files EXCEPT ![t] = "bad"]
    [] OTHER            -> files

\* The op copy_with_retry appends for the copy worker w is making.
CopyOp(w) == JournalOp(wk[w].action, wk[w].task, wk[w].action = "replace_file")

\* A retry loop that runs one attempt more.
OneMoreAttempt(attempt) == attempt < MAX_COPY_RETRY + 1

\* "for attempt in range(1, MAX_COPY_RETRY + 1)": another attempt follows.
MoreAttempts(attempt) == attempt < MAX_COPY_RETRY

WAttempt(w, outcome) ==
  /\ wk[w].pc = "copy"
  /\ outcome = "hash" => verify
  /\ LET t == wk[w].task IN
     /\ dfs' = AfterRename(dfs, t, outcome)
     /\ ddirs' = IF outcome = "io" \/ Parent(t) = "." THEN ddirs
                 ELSE ddirs \cup {Parent(t)}
     /\ hist' = LET h == IF outcome = "io" THEN hist
                         ELSE [hist EXCEPT !.wmut = @ \cup {t}, !.mutated = @ \cup {t},
                                 !.commits = IF outcome = "ok" THEN Append(@, CopyOp(w))
                                             ELSE @]
                IN IF outcome # "ok" /\ ~MoreAttempts(wk[w].attempt)
                   THEN [h EXCEPT !.failed = @ \cup {[file |-> t, attempts |-> wk[w].attempt]}]
                   ELSE h
     /\ IF outcome = "ok"
        THEN /\ wk' = [wk EXCEPT ![w].pc = "journal"]
             /\ UNCHANGED <<stats, queue, unfinished>>
        ELSE IF MoreAttempts(wk[w].attempt)
        THEN /\ wk' = [wk EXCEPT ![w].attempt = @ + 1]
             /\ UNCHANGED <<stats, queue, unfinished>>
        ELSE /\ stats' = [stats EXCEPT !.copy_failed = @ + 1]
             /\ LoopTop(w, cancelEvent)
  /\ UNCHANGED <<mode, verify, run, dryRun, resume, opc, sdir, sfile, dfq,
                 cancelled, cancelEvent, backups, jops,
                 jstatus, pjops, pjstatus, cp, pcp, rbIdx>>

\* The end of copy_with_retry after a successful copy (the op under the
\* journal lock, the counter under the stats lock), then the worker's
\* add_processed_file_safe and its finally block.
WJournal(w) ==
  /\ wk[w].pc = "journal"
  /\ jops' = Append(jops, CopyOp(w))
  /\ stats' = CountCopy(stats, wk[w].action)
  /\ cp' = add_processed_file_safe(cp, wk[w].task)
  /\ LoopTop(w, cancelEvent)
  /\ UNCHANGED <<mode, verify, run, dryRun, resume, opc, sdir, sfile, dfq,
                 cancelled, cancelEvent, dfs, ddirs, backups,
                 jstatus, pjops, pjstatus, pcp, rbIdx, hist>>

\* ----------------------------------------------------------------- rollback
\* The effect of one iteration of rollback_journal's loop on the destination:
\* fs is [files, dirs, backups].
IsEmptyDir(fs, d) == \A p \in DstPaths : Parent(p) = d => fs.files[p] = None

\* A replay that deletes the target of an op whose backup is not there.
ReverseOpDropsUnbacked(op, fs, dry) ==
  IF dry THEN fs
  ELSE CASE op.action = "create_file" ->
              [fs EXCEPT !.files[op.target] = None]
         [] op.action \in {"replace_file", "delete_file"} /\ op.backup ->
              IF fs.backups[op.target] # None
              THEN [files |-> [fs.files EXCEPT ![op.target] = fs.backups[op.target]],
                    dirs |-> IF Parent(op.target) = "." THEN fs.dirs
                             ELSE fs.dirs \cup {Parent(op.target)},
                    backups |-> [fs.backups EXCEPT ![op.target] = None]]
              ELSE [fs EXCEPT !.files[op.target] = None]
         [] op.action = "create_dir" ->
              IF op.target \in fs.dirs /\ (\A p \in DstPaths : Parent(p) = op.target => fs.files[p] = None)
              THEN [fs EXCEPT !.dirs = @ \ {op.target}]
              ELSE fs
         [] OTHER -> fs

ReverseOp(op, fs, dry) ==
  IF dry THEN fs
  ELSE CASE op.action = "create_file" ->
              [fs EXCEPT !.files[op.target] = None]
         [] op.action \in {"replace_file", "delete_file"} ->
              IF op.backup /\ fs.backups[op.target] # None
              THEN [files |-> [fs.files EXCEPT ![op.target] = fs.backups[op.target]],
                    dirs |-> IF Parent(op.target) = "." THEN fs.dirs
                             ELSE fs.dirs \cup {Parent(op.target)},
                    backups |-> [fs.backups EXCEPT ![op.target] = None]]
              ELSE fs
         [] op.action = "create_dir" ->
              IF op.target \in fs.dirs /\ IsEmptyDir(fs, op.target)
              THEN [fs EXCEPT !.dirs = @ \ {op.target}]
              ELSE fs
         [] OTHER -> fs

\* The branch "elif backup:" of the loop: the op names a backup that does not
\* exist, which rollback_journal counts in fail_count.
ReverseFails(op, fs) ==
  /\ op.action \in {"replace_file", "delete_file"}
  /\ op.backup
  /\ fs.backups[op.target] = None

\* rollback_journal(journal, dry_run) as a whole: reversed(journal.ops).
RECURSIVE rollback_journal(_, _, _)
rollback_journal(ops, fs, dry) ==
  IF ops = <<>> THEN fs
  ELSE rollback_journal(SubSeq(ops, 1, Len(ops) - 1),
                        ReverseOp(ops[Len(ops)], fs, dry), dry)

DstState == [files |-> dfs, dirs |-> ddirs, backups |-> backups]

\* ------------------------------------------------------------- cleanup pass
\* The order in which os.walk(job.destination) lists the files it finds
\* outside .Rollback and .SafetyNet.
DstWalkFiles == <<"a.txt", "stale.txt", "t.tmp", "b/c.txt", MetaJournal>>
\* The directories the bottom-up walk tries to rmdir, in its order.
DstWalkDirs == <<"b", "e", "z", MetaDir>>

\* A cleanup pass that leaves every destination file where it is.
CleanupFileKeepsAll(acc, f, m, dry, fail) == acc

\* The file loop of the cleanup pass for one destination file: a file that
\* is not excluded and has no source counterpart is moved to the rollback
\* vault (clone) or to SafetyNet (safety_net) and journalled as delete_file.
\* A move that raises (f \in fail) is logged and the file stays where it is.
\* move_to_safety_net first calls get_safety_net_dir, which creates
\* .SafetyNet/<today> whether or not the run is a dry-run.
\* acc is [fs, ops, stats].
CleanupFile(acc, f, m, dry, fail) ==
  IF acc.fs.files[f] = None \/ path_matches_patterns(f) \/ f \in SrcFiles
  THEN acc
  ELSE IF ~dry /\ f \in fail
  THEN acc
  ELSE IF m = "clone"
  THEN IF dry THEN acc
       ELSE [fs |-> [acc.fs EXCEPT !.files[f] = None, !.backups[f] = acc.fs.files[f]],
             ops |-> Append(acc.ops, JournalOp("delete_file", f, TRUE)),
             stats |-> [acc.stats EXCEPT !.deleted_files = @ + 1]]
  ELSE [fs |-> IF dry THEN [acc.fs EXCEPT !.dirs = @ \cup {SafetyNetDir}]
               ELSE [acc.fs EXCEPT !.files[f] = None, !.backups[f] = acc.fs.files[f],
                                   !.dirs = @ \cup {SafetyNetDir}],
        ops |-> Append(acc.ops, JournalOp("delete_file", f, TRUE)),
        stats |-> [acc.stats EXCEPT !.safetynet_files = @ + 1]]

\* The bottom-up pass of clone mode for one directory: rmdir succeeds on an
\* empty directory and is journalled as delete_file without a backup.
CleanupDir(acc, d) ==
  IF d \in acc.fs.dirs /\ IsEmptyDir(acc.fs, d)
  THEN [acc EXCEPT !.fs.dirs = @ \ {d},
                   !.ops = Append(@, JournalOp("delete_file", d, FALSE))]
  ELSE acc

RECURSIVE CleanupFiles(_, _, _, _, _)
CleanupFiles(acc, i, m, dry, fail) ==
  IF i > Len(DstWalkFiles) THEN acc
  ELSE CleanupFiles(CleanupFile(acc, DstWalkFiles[i], m, dry, fail), i + 1, m, dry, fail)

RECURSIVE CleanupDirs(_, _)
CleanupDirs(acc, i) ==
  IF i > Len(DstWalkDirs) THEN acc
  ELSE CleanupDirs(CleanupDir(acc, DstWalkDirs[i]), i + 1)

\* A cleanup pass that quarantines in every mode.
CleanupPassAnyMode(acc, m, dry, fail) == CleanupFiles(acc, 1, "safety_net", dry, fail)

\* STAGE 3 as a whole.
CleanupPass(acc, m, dry, fail) ==
  IF m = "sync" THEN acc
  ELSE IF m = "clone" /\ ~dry
  THEN CleanupDirs(CleanupFiles(acc, 1, m, dry, fail), 1)
  ELSE CleanupFiles(acc, 1, m, dry, fail)

\* --------------------------------------------------- perform_backup, stages
\* STAGE 2 of a run that was not cancelled: task_queue.join() returns when
\* every task is done, then the checkpoint is saved.
JoinQueue ==
  /\ opc = "postscan" /\ ~cancelled
  /\ unfinished = 0
  /\ pcp' = IF dryRun THEN pcp ELSE cp
  /\ opc' = "cleanup"
  /\ UNCHANGED <<mode, verify, run, dryRun, resume, sdir, sfile, dfq, cancelled,
                 cancelEvent, queue, unfinished, wk, dfs, ddirs, backups, jops,
                 jstatus, pjops, pjstatus, cp, stats, rbIdx, hist>>

\* A cancel path that does not return: it goes on to the cleanup stage.
CancelPathGoesOn ==
  /\ opc = "postscan" /\ cancelled
  /\ opc' = "cleanup"
  /\ UNCHANGED <<mode, verify, run, dryRun, resume, sdir, sfile, dfq, cancelled,
                 cancelEvent, queue, unfinished, wk, dfs, ddirs, backups, jops,
                 jstatus, pjops, pjstatus, cp, pcp, stats, rbIdx, hist>>

\* The cancel path: the journal is saved with status cancelled, the
\* checkpoint with status incomplete, and perform_backup returns (through
\* its finally block).
CancelPath ==
  /\ opc = "postscan" /\ cancelled
  /\ jstatus' = "cancelled"
  /\ save_journal("cancelled", jops)
  /\ dfs' = WithMetaJournal(dfs)
  /\ ddirs' = ddirs \cup {MetaDir}
  /\ cp' = IF dryRun THEN cp ELSE [cp EXCEPT !.status = "incomplete"]
  /\ pcp' = IF dryRun THEN pcp ELSE [cp EXCEPT !.status = "incomplete"]
  /\ opc' = "finally"
  /\ UNCHANGED <<mode, verify, run, dryRun, resume, sdir, sfile, dfq, cancelled,
                 cancelEvent, queue, unfinished, wk, backups, jops,
                 stats, rbIdx, hist>>

\* The destination files the cleanup pass tries to move away.
CleanupTargets ==
  IF mode = "sync" \/ dryRun THEN {}
  ELSE {f \in DstPaths : dfs[f] # None /\ ~path_matches_patterns(f) /\ f \notin SrcFiles}

\* The files move_to_safety_net has moved under .SafetyNet/<today>/ once the
\* cleanup pass has taken the journal from ops old to ops new; the cleanup pass
\* of mode safety_net is the only caller of move_to_safety_net.
MovedToSafetyNet(known, old, new) ==
  IF mode = "safety_net" /\ ~dryRun
  THEN known \cup {new[i].target : i \in Len(old) + 1 .. Len(new)}
  ELSE known

Cleanup(fail) ==
  /\ opc = "cleanup"
  /\ fail \subseteq CleanupTargets
  /\ LET r == CleanupPass([fs |-> DstState, ops |-> jops, stats |-> stats],
                          mode, dryRun, fail) IN
     /\ dfs' = r.fs.files
     /\ ddirs' = r.fs.dirs
     /\ backups' = r.fs.backups
     /\ jops' = r.ops
     /\ stats' = r.stats
     /\ hist' = [hist EXCEPT !.cleanup = TRUE,
                   !.moveFailed = fail # {},
                   !.quarantined = MovedToSafetyNet(@, jops, r.ops),
                   !.commits = IF dryRun THEN @
                               ELSE @ \o SubSeq(r.ops, Len(jops) + 1, Len(r.ops)),
                   !.mutated = @ \cup {r.ops[i].target : i \in Len(jops) + 1 .. Len(r.ops)}]
  /\ opc' = "snapshot"
  /\ UNCHANGED <<mode, verify, run, dryRun, resume, sdir, sfile, dfq, cancelled,
                 cancelEvent, queue, unfinished, wk, jstatus, pjops, pjstatus,
                 cp, pcp, rbIdx>>

\* The file loop of the cleanup pass over the first `last` files of the walk.
RECURSIVE CleanupPrefix(_, _, _, _, _)
CleanupPrefix(acc, i, last, m, dry) ==
  IF i > last THEN acc
  ELSE CleanupPrefix(CleanupFile(acc, DstWalkFiles[i], m, dry, {}), i + 1, last, m, dry)

\* STAGE 3 raises: after n files of the walk, src_file.exists() raises for
\* the next destination file (its source path cannot be examined), and the
\* exception leaves the try block.
CleanupRaise(n) ==
  /\ opc = "cleanup" /\ mode # "sync"
  /\ dfs[DstWalkFiles[n + 1]] # None
  /\ ~path_matches_patterns(DstWalkFiles[n + 1])
  /\ LET r == CleanupPrefix([fs |-> DstState, ops |-> jops, stats |-> stats],
                            1, n, mode, dryRun) IN
     /\ dfs' = r.fs.files
     /\ ddirs' = r.fs.dirs
     /\ backups' = r.fs.backups
     /\ jops' = r.ops
     /\ stats' = r.stats
     /\ hist' = Raised([hist EXCEPT !.cleanup = TRUE,
                   !.quarantined = MovedToSafetyNet(@, jops, r.ops),
                   !.commits = IF dryRun THEN @
                               ELSE @ \o SubSeq(r.ops, Len(jops) + 1, Len(r.ops)),
                   !.mutated = @ \cup {r.ops[i].target : i \in Len(jops) + 1 .. Len(r.ops)}],
                       Len(r.ops))
     /\ rbIdx' = Len(r.ops)
  /\ opc' = "rollback"
  /\ UNCHANGED <<mode, verify, run, dryRun, resume, sdir, sfile, dfq, cancelled,
                 cancelEvent, queue, unfinished, wk, jstatus, pjops, pjstatus,
                 cp, pcp>>

\* STAGE 4: the journal is saved with status success and the checkpoint with
\* status complete; then build_snapshot and write_summary run (not in a
\* dry-run).  built = FALSE is one of them raising, which enters the
\* exception handler of perform_backup; emitted says what build_snapshot had
\* written by then: nothing, the manifest snapshot_<timestamp>.json, or the
\* manifest and its entry in index.json.
Snapshot(built, emitted) ==
  /\ opc = "snapshot"
  /\ built \/ ~dryRun
  /\ built => emitted = (IF dryRun THEN "none" ELSE "index")
  /\ jstatus' = "success"
  /\ save_journal("success", jops)
  /\ dfs' = WithMetaJournal(dfs)
  /\ ddirs' = ddirs \cup {MetaDir}
  /\ cp' = IF dryRun THEN cp ELSE [cp EXCEPT !.status = "complete"]
  /\ pcp' = IF dryRun THEN pcp ELSE [cp EXCEPT !.status = "complete"]
  /\ hist' = IF built THEN [hist EXCEPT !.snapshot = TRUE, !.emitted = emitted]
              ELSE Raised([hist EXCEPT !.snapshot = TRUE, !.emitted = emitted],
                          Len(jops))
  /\ IF built
     THEN opc' = "finally" /\ rbIdx' = rbIdx
     ELSE opc' = "rollback" /\ rbIdx' = Len(jops)
  /\ UNCHANGED <<mode, verify, run, dryRun, resume, sdir, sfile, dfq, cancelled,
                 cancelEvent, queue, unfinished, wk, backups, jops, stats>>

\* The exception handler: one iteration of rollback_journal's loop over
\* reversed(journal.ops), which iterates the ops present when it started.
RollbackStep ==
  /\ opc = "rollback" /\ rbIdx > 0
  /\ LET r == ReverseOp(jops[rbIdx], DstState, dryRun) IN
     /\ dfs' = r.files
     /\ ddirs' = r.dirs
     /\ backups' = r.backups
  /\ rbIdx' = rbIdx - 1
  /\ hist' = [hist EXCEPT !.rbSeq = Append(@, rbIdx),
                          !.rbFailed = @ \/ ReverseFails(jops[rbIdx], DstState)]
  /\ UNCHANGED <<mode, verify, run, dryRun, resume, opc, sdir, sfile, dfq,
                 cancelled, cancelEvent, queue, unfinished, wk, jops, jstatus,
                 pjops, pjstatus, cp, pcp, stats>>

\* rollback_journal returned: status rolled_back, and the journal is saved.
RollbackEnd ==
  /\ opc = "rollback" /\ rbIdx = 0
  /\ jstatus' = "rolled_back"
  /\ save_journal("rolled_back", jops)
  /\ dfs' = WithMetaJournal(dfs)
  /\ ddirs' = ddirs \cup {MetaDir}
  /\ opc' = "finally"
  /\ UNCHANGED <<mode, verify, run, dryRun, resume, sdir, sfile, dfq, cancelled,
                 cancelEvent, queue, unfinished, wk, backups, jops, cp, pcp,
                 stats, rbIdx, hist>>

\* The finally block: the cancel event is set, then every worker is joined.
Finally ==
  /\ opc = "finally"
  /\ cancelEvent' = TRUE
  /\ opc' = "join"
  /\ UNCHANGED <<mode, verify, run, dryRun, resume, sdir, sfile, dfq, cancelled,
                 queue, unfinished, wk, dfs, ddirs, backups, jops, jstatus,
                 pjops, pjstatus, cp, pcp, stats, rbIdx, hist>>

JoinWorkers ==
  /\ opc = "join"
  /\ \A w \in Workers : wk[w].pc = "exited"
  /\ opc' = "done"
  /\ UNCHANGED <<mode, verify, run, dryRun, resume, sdir, sfile, dfq, cancelled,
                 cancelEvent, queue, unfinished, wk, dfs, ddirs, backups, jops,
                 jstatus, pjops, pjstatus, cp, pcp, stats, rbIdx, hist>>

\* main_rollback: the journal file of the last run is loaded, replayed and
\* saved with status rolled_back.
MainRollback ==
  /\ opc = "done"
  /\ LET r == rollback_journal(pjops, DstState, FALSE) IN
     /\ dfs' = WithMetaJournal(r.files)
     /\ ddirs' = r.dirs \cup {MetaDir}
     /\ backups' = r.backups
  /\ pjstatus' = "rolled_back"
  /\ opc' = "rolledback"
  /\ UNCHANGED <<mode, verify, run, dryRun, resume, sdir, sfile, dfq, cancelled,
                 cancelEvent, queue, unfinished, wk, jops, jstatus, pjops,
                 cp, pcp, stats, rbIdx, hist>>

Next ==
  \/ \E d \in BOOLEAN, r \in BOOLEAN : StartRun(d, r)
  \/ ScanDirSkip
  \/ ScanDirCancel
  \/ ScanDirEnter
  \/ ScanDirFail
  \/ ScanFileCancel
  \/ ScanFile
  \/ \E w \in Workers : WGet(w)
  \/ \E w \in Workers : WExit(w)
  \/ \E w \in Workers : WSkipCancelled(w)
  \/ \E w \in Workers : WSkipSame(w)
  \/ \E w \in Workers, c \in BOOLEAN : WBeginCopy(w, c)
  \/ \E w \in Workers, o \in {"ok", "io", "hash"} : WAttempt(w, o)
  \/ \E w \in Workers : WJournal(w)
  \/ JoinQueue
  \/ CancelPath
  \/ \E fail \in SUBSET DstPaths : Cleanup(fail)
  \/ \E n \in 0..(Len(DstWalkFiles) - 1) : CleanupRaise(n)
  \/ \E b \in BOOLEAN, e \in {"none", "manifest", "index"} : Snapshot(b, e)
  \/ RollbackStep
  \/ RollbackEnd
  \/ Finally
  \/ JoinWorkers
  \/ MainRollback

Spec == Init /\ [][Next]_vars

\* ------------------------------------------------------------------ claims
\* perform_backup has returned and every worker thread has stopped.
RunOver == opc = "done"

HasOp(ops, x, actions) ==
  \E i \in 1..Len(ops) : ops[i].target = x /\ ops[i].action \in actions

AllActions == {"create_file", "replace_file", "delete_file", "create_dir"}

\* The files of the destination outside .Rollback, .SafetyNet and .DiskSyncPro.
UserFiles(files) == [p \in {q \in DstPaths : ~Reserved(q)} |-> files[p]]

\* The non-excluded regular files under the destination outside the reserved
\* trees, and the non-excluded regular files of the source.
DstSet == {p \in DstPaths : ~Reserved(p) /\ ~path_matches_patterns(p) /\ dfs[p] # None}
SrcSet == {f \in SrcFiles : ~path_matches_patterns(f)}

\* A file or directory of the destination exists.
Exists(x) == IF x \in DstPaths THEN dfs[x] # None ELSE x \in ddirs

\* C1: after a non-dry-run perform_backup has finished and all workers have
\* stopped, every file under the destination that a worker created or
\* replaced during the run (a copy renamed into place, also one whose hash
\* verification then failed on every attempt) has a create_file or
\* replace_file op for its path in the journal.
C1_WorkerMutationsJournalled ==
  (RunOver /\ ~dryRun) =>
    \A p \in hist.wmut :
      dfs[p] # None => HasOp(jops, p, {"create_file", "replace_file"})

\* C2: at every point of a run, the journal file on disk holds an op for
\* every destination mutation the planner, a worker or the cleanup pass has
\* already committed.
C2_PersistedJournalCoversMutations ==
  ~dryRun => \A x \in hist.mutated : HasOp(pjops, x, AllActions)

\* C3: once the journal has been persisted with status cancelled, rolled_back
\* or rollback_failed, no step of the same run changes a destination file or
\* appends a journal op.
C3_QuietAfterTerminalSave ==
  [][(/\ pjstatus \in {"cancelled", "rolled_back", "rollback_failed"}
      /\ run' = run /\ opc' # "rolledback")
     => (jops' = jops /\ UserFiles(dfs') = UserFiles(dfs))]_vars

\* C4: when a run ends with journal status rolled_back, the files under the
\* destination outside the reserved trees are the same set with the same
\* contents as before the run.
C4_RolledBackRunRestores ==
  (RunOver /\ jstatus = "rolled_back" /\ ~dryRun) =>
    UserFiles(dfs) = UserFiles(hist.pre)

\* C5: applying rollback_journal to the journal of a run that reached status
\* success gives back the destination files (outside the reserved trees) of
\* before the run: same set, same sizes, mtimes and contents.
C5_RollbackOfSuccessRestores ==
  (opc = "rolledback" /\ jstatus = "success") =>
    UserFiles(dfs) = UserFiles(hist.pre)

\* C6: a fresh run cancelled during the scan, followed by resumed runs of
\* which the last ends success without a failed copy, leaves no non-excluded
\* regular source file uncopied.
C6_ResumeLeavesNothingUncopied ==
  (RunOver /\ jstatus = "success" /\ resume /\ hist.chain /\ stats.copy_failed = 0) =>
    \A f \in SrcSet : dfs[f] # None

\* C7: a run that follows a successful run of the same job (source
\* unchanged, no copy failed) ends with a journal without ops, every file
\* counted skipped_same.
C7_SecondRunJournalEmpty ==
  (RunOver /\ hist.prevClean /\ ~dryRun /\ jstatus = "success") =>
    (jops = <<>> /\ stats.skipped_same = Cardinality(SrcSet))

C9_StatusChangesOnce ==
  [][(jstatus \notin {"none", "pending"} /\ run' = run) => jstatus' = jstatus]_vars

Downward(n) == [i \in 1..n |-> n + 1 - i]

C12_FailedReplayEndsRollbackFailed ==
  (RunOver /\ hist.raised /\ hist.rbFailed) => jstatus = "rollback_failed"

\* C13: a file whose copy fails on every attempt (I/O error, or hash mismatch
\* with verify set) gets exactly three attempts, is counted once in
\* copy_failed, gets no journal op, is not added to the checkpoint's processed
\* set, and a run that is neither cancelled nor hit by an exception still ends
\* with journal status success.
C13_FailedCopySkipped ==
  /\ \A r \in hist.failed :
       /\ r.attempts = 3
       /\ ~HasOp(jops, r.file, {"create_file", "replace_file"})
       /\ ~dryRun => r.file \notin cp.processed
  /\ stats.copy_failed = Cardinality(hist.failed)
  /\ (RunOver /\ hist.failed # {} /\ ~cancelled /\ ~hist.raised) => jstatus = "success"

C13_Witness ==
  /\ RunOver /\ jstatus = "success" /\ stats.copy_failed = 2
  /\ \E r \in hist.failed : dfs[r.file] = "bad"
  /\ \E r \in hist.failed : dfs[r.file] = None

\* The files and directories of the destination that the source does not have.
DstOnlyFiles == DstPaths \ SrcFiles
DstOnlyDirs == {"z", MetaDir}

\* C14: in mode sync no step moves, deletes or quarantines a file or a
\* directory that exists under the destination and not under the source, and
\* the journal never holds a delete_file op.
C14_SyncKeepsDestinationOnly ==
  [][mode = "sync" =>
       /\ \A p \in DstOnlyFiles :
            dfs[p] # None => /\ dfs'[p] # None
                             /\ ~Reserved(p) => dfs'[p] = dfs[p]
                             /\ backups'[p] = None
       /\ \A d \in DstOnlyDirs : d \in ddirs => d \in ddirs'
       /\ ~HasOp(jops', "stale.txt", {"delete_file"})
       /\ \A i \in 1..Len(jops') : jops'[i].action # "delete_file"]_vars

C14_Witness ==
  /\ mode = "sync" /\ RunOver /\ jstatus = "success" /\ hist.cleanup
  /\ dfs["stale.txt"] = "old" /\ "z" \in ddirs
  /\ stats.replaced_files > 0 /\ stats.created_files > 0

\* The destination files the cleanup pass is meant to act on, given the
\* destination as the run found it: not excluded, outside the reserved trees,
\* and without a source counterpart.
StaleFiles(files) ==
  {p \in DstOnlyFiles : files[p] # None /\ ~Reserved(p) /\ ~path_matches_patterns(p)}

DeleteOps(ops) == {i \in 1..Len(ops) : ops[i].action = "delete_file"}

\* C15: at the end of a successful safety_net run (not a dry run, no move
\* failed) the files quarantined are exactly the stale files: each is gone from
\* the destination, kept in the vault and named by exactly one delete_file op
\* that carries a backup, no other delete_file op exists, and safetynet_files
\* counts them.
C15_SafetyNetTakesExactlyStaleFiles ==
  (RunOver /\ mode = "safety_net" /\ jstatus = "success" /\ ~dryRun /\ ~hist.moveFailed)
    => /\ {jops[i].target : i \in DeleteOps(jops)} = StaleFiles(hist.pre)
       /\ \A i \in DeleteOps(jops) : jops[i].backup
       /\ Cardinality(DeleteOps(jops)) = Cardinality(StaleFiles(hist.pre))
       /\ stats.safetynet_files = Cardinality(StaleFiles(hist.pre))

\* C16: the journal never holds a delete_file op for the reserved directory
\* .DiskSyncPro or for a file under it, that is, the cleanup pass never moves
\* or removes anything of the reserved trees.
C16_CleanupSparesReservedTrees ==
  \A i \in DeleteOps(jops) : ~Reserved(jops[i].target) /\ jops[i].target # MetaDir

\* File f lies under the relative directory d, at any depth.
Under(f, d) == d = "." \/ Parent(f) = d

\* C17: whenever a relative directory is in processed_dirs, every non-excluded
\* regular source file under it is in the processed-files set or is the same
\* file (size and whole-second mtime) as its destination copy.
C17_ProcessedDirsAreDone ==
  \A d \in cp.dirs : \A f \in SrcSet :
    Under(f, d) => (f \in cp.processed \/ is_same_file(dfs[f]))

\* ------------------------------------------------------ the checkpoint file
\* The checkpoint of one job over several runs, with a source of more files
\* than save_checkpoint keeps.  The files sit in one source directory that is
\* never promoted to processed_dirs, and a run handles fewer files than
\* checkpoint_save_interval (100), so the periodic save inside
\* add_processed_file_safe is not reached.
MaxCpRuns == 3

\* The source files, in the order sorted() puts their relative paths.
CpSorted == <<"a.txt", "b.txt", "c.txt">>
CpFiles == SeqRange(CpSorted)

\* The slice bound of "sorted(list(cp["processed"]))[:1000]", scaled down.
KeepLimit == 2

\* An element of processed_files that is not a string (a JSON number).
BadElem == "#1"
SortKeys == <<BadElem>> \o CpSorted

\* What the checkpoint file may hold: nothing at all (absent), what
\* save_checkpoint wrote (json), or one of the damaged forms.
CorruptKinds == {"empty", "badjson", "notdict", "notlist", "unhashable",
                 "badtotal", "badelems", "unreadable"}
NoFile == [kind |-> "absent", status |-> "absent", processed |-> {}, dirs |-> {},
           total |-> 0]

\* The damaged forms on which json.load or the validation raises
\* JSONDecodeError, ValueError or TypeError.
RaisesOnParse == {"badjson", "notdict", "notlist", "unhashable"}

\* load_or_init_checkpoint proper: the dict it returns for a file.  A file of
\* numbers in processed_files passes the isinstance tests; a total_processed
\* that is not an int is replaced by len(processed).
LoadCheckpointFile(file) ==
  IF file.kind \in {"json", "badelems", "badtotal"} /\ file.status = "incomplete"
  THEN [status |-> "incomplete", processed |-> file.processed, dirs |-> file.dirs,
        total |-> IF file.kind = "badtotal" THEN Cardinality(file.processed)
                  ELSE file.total]
  ELSE [status |-> IF file.kind \in {"json", "badelems", "badtotal"}
                   THEN file.status ELSE "incomplete",
        processed |-> {}, dirs |-> {}, total |-> 0]

\* What load_or_init_checkpoint does with the damaged file itself: a
\* best-effort shutil.copy2 to <name>.json.corrupt.<timestamp>, only in the
\* handler of the parse errors.
SetAside(file, copyOk) ==
  IF file.kind \in RaisesOnParse /\ copyOk THEN "copied" ELSE "none"

\* sorted(list(s))[:n], from position i of the sort order on.
RECURSIVE SortedPrefix(_, _, _)
SortedPrefix(s, i, n) ==
  IF n = 0 \/ i > Len(SortKeys) THEN {}
  ELSE IF SortKeys[i] \in s
  THEN {SortKeys[i]} \cup SortedPrefix(s, i + 1, n - 1)
  ELSE SortedPrefix(s, i + 1, n)

\* sorted() raises TypeError on a list that mixes numbers and strings; the
\* call sits outside the try block of save_checkpoint.
SortRaises(s) == BadElem \in s /\ s \ {BadElem} # {}

\* save_checkpoint(cp): the file after the call.  A failed write (ok = FALSE)
\* is logged and leaves the file as it was.
save_checkpoint(c, file, ok) ==
  IF ok
  THEN [kind |-> "json", status |-> c.status,
        processed |-> SortedPrefix(c.processed, 1, KeepLimit),
        dirs |-> c.dirs, total |-> c.total]
  ELSE file

CpFrozen == <<mode, verify, dryRun, sdir, sfile, dfq, cancelled, cancelEvent,
              queue, unfinished, wk, dfs, ddirs, backups, jops, jstatus, pjops,
              pjstatus, stats, rbIdx>>

CpHist == [order |-> <<>>, chain |-> FALSE, clean |-> FALSE, justSaved |-> FALSE,
           loadedKind |-> "absent", aside |-> "none", loaded |-> NoCp,
           raised |-> FALSE]

CpInit ==
  /\ mode = "sync" /\ verify = FALSE
  /\ run = 0 /\ dryRun = FALSE /\ resume = FALSE
  /\ opc = "cpidle"
  /\ sdir = 0 /\ sfile = 0 /\ dfq = 0
  /\ cancelled = FALSE /\ cancelEvent = FALSE
  /\ queue = <<>> /\ unfinished = 0
  /\ wk = [w \in Workers |-> IdleWorker]
  /\ dfs = EmptyDst /\ ddirs = {} /\ backups = EmptyDst
  /\ jops = <<>> /\ jstatus = "none"
  /\ pjops = <<>> /\ pjstatus = "none"
  /\ cp = NoCp /\ pcp = NoFile
  /\ stats = ZeroStats
  /\ rbIdx = 0
  /\ hist = CpHist

\* perform_backup (not a dry run) from load_or_init_checkpoint to the initial
\* save_checkpoint.  The initial save is outside the try block: if sorted()
\* raises, perform_backup raises.
CpStart(isResume, copyOk, ok) ==
  /\ opc = "cpidle" /\ run < MaxCpRuns
  /\ run' = run + 1 /\ resume' = isResume
  /\ cp' = load_or_init_checkpoint(LoadCheckpointFile(pcp), isResume)
  /\ IF SortRaises(cp'.processed)
     THEN pcp' = pcp /\ opc' = "cpidle"
     ELSE pcp' = save_checkpoint(cp', pcp, ok) /\ opc' = "cprun"
  /\ hist' = [hist EXCEPT
                !.order = IF isResume THEN @ ELSE <<>>,
                !.chain = ~isResume \/ @,
                !.clean = IF isResume THEN @ /\ ok ELSE ok,
                !.justSaved = ok /\ ~SortRaises(cp'.processed),
                !.loadedKind = pcp.kind,
                !.aside = SetAside(pcp, copyOk),
                !.loaded = LoadCheckpointFile(pcp),
                !.raised = SortRaises(cp'.processed)]
  /\ UNCHANGED CpFrozen

\* A worker completes file f (copied, or skipped as the same file) and calls
\* add_processed_file_safe.  The scan queues only files outside the processed
\* set, each once.
CpComplete(f) ==
  /\ opc = "cprun"
  /\ f \notin cp.processed
  /\ cp' = add_processed_file_safe(cp, f)
  /\ hist' = [hist EXCEPT
                !.order = Append(SelectSeq(@, LAMBDA g : g # f), f),
                !.justSaved = FALSE]
  /\ UNCHANGED <<run, resume, opc, pcp>>
  /\ UNCHANGED CpFrozen

\* The cancel path: checkpoint saved with status incomplete, run over.  If
\* sorted() raises, the except handler of perform_backup takes over and the
\* file stays as it was.
CpCancel(ok) ==
  /\ opc = "cprun"
  /\ cp' = [cp EXCEPT !.status = "incomplete"]
  /\ pcp' = IF SortRaises(cp.processed) THEN pcp ELSE save_checkpoint(cp', pcp, ok)
  /\ opc' = "cpidle"
  /\ hist' = [hist EXCEPT !.clean = @ /\ ok /\ ~SortRaises(cp.processed),
                          !.justSaved = ok /\ ~SortRaises(cp.processed),
                          !.raised = SortRaises(cp.processed)]
  /\ UNCHANGED <<run, resume>>
  /\ UNCHANGED CpFrozen

\* A run that is not cancelled: save_checkpoint after task_queue.join(), then
\* status complete and the last save_checkpoint.
CpFinish(ok1, ok2) ==
  /\ opc = "cprun"
  /\ IF SortRaises(cp.processed)
     THEN cp' = cp /\ pcp' = pcp
     ELSE /\ cp' = [cp EXCEPT !.status = "complete"]
          /\ pcp' = save_checkpoint(cp', save_checkpoint(cp, pcp, ok1), ok2)
  /\ opc' = "cpidle"
  /\ hist' = [hist EXCEPT !.chain = FALSE,
                          !.justSaved = ok2 /\ ~SortRaises(cp.processed),
                          !.raised = SortRaises(cp.processed)]
  /\ UNCHANGED <<run, resume>>
  /\ UNCHANGED CpFrozen

\* Between two runs the checkpoint file is damaged: truncated to nothing,
\* made invalid JSON, given values of the wrong types, or made unreadable.
CpCorrupt(kind) ==
  /\ opc = "cpidle" /\ run < MaxCpRuns
  /\ pcp.kind \in {"absent", "json"}
  /\ pcp' = [pcp EXCEPT !.kind = kind,
                        !.processed = IF kind = "badelems" THEN @ \cup {BadElem}
                                      ELSE @]
  /\ hist' = [hist EXCEPT !.clean = FALSE, !.justSaved = FALSE]
  /\ UNCHANGED <<run, resume, opc, cp>>
  /\ UNCHANGED CpFrozen

CpNext ==
  \/ \E r \in BOOLEAN, c \in BOOLEAN, ok \in BOOLEAN : CpStart(r, c, ok)
  \/ \E f \in CpFiles : CpComplete(f)
  \/ \E ok \in BOOLEAN : CpCancel(ok)
  \/ \E ok1 \in BOOLEAN, ok2 \in BOOLEAN : CpFinish(ok1, ok2)
  \/ \E k \in CorruptKinds : CpCorrupt(k)

CpSpec == CpInit /\ [][CpNext]_vars

\* The n most recently completed files among those of set s.
MostRecent(order, s, n) ==
  LET o == SelectSeq(order, LAMBDA g : g \in s)
  IN {o[i] : i \in {j \in 1..Len(o) : j > Len(o) - n}}

\* C18: in a fresh run followed by cancelled and resumed runs (checkpoint file
\* never damaged, every write succeeding) total_processed equals the number of
\* distinct source files completed since the fresh run started.
C18_TotalCountsDistinctFiles ==
  (hist.chain /\ hist.clean) => cp.total = Len(hist.order)

\* C19: when the processed set holds more than KeepLimit files, the list that
\* save_checkpoint has just written holds the KeepLimit most recently processed
\* paths.
C19_SavedListIsMostRecent ==
  (hist.justSaved /\ hist.clean /\ Cardinality(cp.processed) > KeepLimit)
    => pcp.processed = MostRecent(hist.order, cp.processed, KeepLimit)

\* C20: a run that finds the checkpoint file damaged does not raise, has set
\* the file aside under a .corrupt name, and starts from a checkpoint with
\* empty sets and counter 0.
C20_CorruptCheckpointSetAside ==
  hist.loadedKind \in CorruptKinds
    => /\ ~hist.raised
       /\ hist.aside # "none"
       /\ hist.loaded.processed = {} /\ hist.loaded.dirs = {}
       /\ hist.loaded.total = 0

\* ------------------------------------------------- writes of the state files
\* One state file is written at a time; the process may be killed between any
\* two steps of the write.  In this specification dfs holds what each state
\* file holds on disk, backups what its .tmp sibling holds, hist the write
\* under way; a content is [ver, bytes]: version ver of the document, of which
\* bytes chunks have reached the file (ver 0: no file).
MaxWrites == 3

\* The number of chunks json.dump writes for a document.
DocLen == 2

StateFiles == {"journal", "checkpoint", "manifest", "index", "summary"}

\* save_journal and save_checkpoint write <name>.tmp, fsync it and
\* os.replace it over the file; build_snapshot and write_summary open the file
\* itself with mode "w".
AtomicFiles == {"journal", "checkpoint"}

NoContent == [ver |-> 0, bytes |-> 0]
Complete(c) == c.ver = 0 \/ c.bytes = DocLen

WrFrozen == <<mode, verify, dryRun, resume, sdir, sfile, dfq, cancelled,
              cancelEvent, queue, unfinished, wk, ddirs, jops, jstatus, pjops,
              pjstatus, cp, pcp, stats, rbIdx>>

WrInit ==
  /\ mode = "sync" /\ verify = FALSE
  /\ run = 0 /\ dryRun = FALSE /\ resume = FALSE
  /\ opc = "wridle"
  /\ sdir = 0 /\ sfile = 0 /\ dfq = 0
  /\ cancelled = FALSE /\ cancelEvent = FALSE
  /\ queue = <<>> /\ unfinished = 0
  /\ wk = [w \in Workers |-> IdleWorker]
  /\ dfs = [f \in StateFiles |-> NoContent]
  /\ backups = [f \in StateFiles |-> NoContent]
  /\ ddirs = {}
  /\ jops = <<>> /\ jstatus = "none"
  /\ pjops = <<>> /\ pjstatus = "none"
  /\ cp = NoCp /\ pcp = NoCp
  /\ stats = ZeroStats
  /\ rbIdx = 0
  /\ hist = [file |-> "journal", old |-> NoContent, new |-> 0]

\* open(..., "w"): tmp_path.open for the atomic writers, the file itself
\* (truncated at once) for the others.
WrOpen(f) ==
  /\ opc \in {"wridle", "crashed"} /\ run < MaxWrites
  /\ run' = run + 1
  /\ IF f \in AtomicFiles
     THEN /\ backups' = [backups EXCEPT ![f] = [ver |-> run + 1, bytes |-> 0]]
          /\ dfs' = dfs
     ELSE /\ dfs' = [dfs EXCEPT ![f] = [ver |-> run + 1, bytes |-> 0]]
          /\ backups' = backups
  /\ hist' = [file |-> f, old |-> dfs[f], new |-> run + 1]
  /\ opc' = "writing"
  /\ UNCHANGED WrFrozen

\* json.dump: one more chunk reaches the open file.
WrChunk ==
  /\ opc = "writing"
  /\ IF hist.file \in AtomicFiles
     THEN /\ backups[hist.file].bytes < DocLen
          /\ backups' = [backups EXCEPT ![hist.file].bytes = @ + 1]
          /\ dfs' = dfs
     ELSE /\ dfs[hist.file].bytes < DocLen
          /\ dfs' = [dfs EXCEPT ![hist.file].bytes = @ + 1]
          /\ backups' = backups
  /\ UNCHANGED <<run, opc, hist>>
  /\ UNCHANGED WrFrozen

\* f.flush(), os.fsync and os.replace(tmp_path, path) of the atomic writers;
\* the end of the with block of the others.
WrClose ==
  /\ opc = "writing"
  /\ IF hist.file \in AtomicFiles
     THEN /\ backups[hist.file].bytes = DocLen
          /\ dfs' = [dfs EXCEPT ![hist.file] = backups[hist.file]]
          /\ backups' = [backups EXCEPT ![hist.file] = NoContent]
     ELSE /\ dfs[hist.file].bytes = DocLen
          /\ UNCHANGED <<dfs, backups>>
  /\ opc' = "wridle"
  /\ UNCHANGED <<run, hist>>
  /\ UNCHANGED WrFrozen

\* The write raises (disk full, I/O error): the atomic writers unlink the
\* .tmp file in their except block, the others leave the file as it is.
WrRaise ==
  /\ opc = "writing"
  /\ backups' = [backups EXCEPT ![hist.file] = NoContent]
  /\ opc' = "wridle"
  /\ UNCHANGED <<run, dfs, hist>>
  /\ UNCHANGED WrFrozen

\* The process is killed during the write.
WrCrash ==
  /\ opc = "writing"
  /\ opc' = "crashed"
  /\ UNCHANGED <<run, dfs, backups, hist>>
  /\ UNCHANGED WrFrozen

WrNext ==
  \/ \E f \in StateFiles : WrOpen(f)
  \/ WrChunk
  \/ WrClose
  \/ WrRaise
  \/ WrCrash

WrSpec == WrInit /\ [][WrNext]_vars

\* C21: after a crash during the write of a state file, the file holds its
\* complete previous content or the complete new content.
C21_CrashLeavesOldOrNew ==
  opc = "crashed" =>
    \/ dfs[hist.file] = hist.old
    \/ dfs[hist.file] = [ver |-> hist.new, bytes |-> DocLen]

\* ------------------------------------------------- the journal file format
\* save_journal followed by load_journal followed by save_journal, on journals
\* of every status and op list.  In this specification jstatus and jops are
\* the journal in memory, pjops is the JSON document in the journal file and
\* hist keeps the first document written and the journal load_journal returned.
MaxOps == 2

\* JSON values: null, a string, an array, and an object as the sequence of its
\* (key, value) pairs in the order json.dump writes them.
JsonNull == [json |-> "null"]
JsonStr(x) == [json |-> "string", text |-> x]
JsonArray(items) == [json |-> "array", items |-> items]

\* Optional[str] to JSON and back.
ToJson(x) == IF x = None THEN JsonNull ELSE JsonStr(x)
FromJson(v) == IF v.json = "null" THEN None ELSE v.text

HasKey(obj, k) == \E i \in 1..Len(obj) : obj[i][1] = k
Get(obj, k) == obj[CHOOSE i \in 1..Len(obj) : obj[i][1] = k][2]

\* The Journal dataclass; the four naming fields are those prepare_journal set.
Journal(status, ops) ==
  [job_name |-> "job", timestamp |-> "20240101_000000", dest_root |-> "/dst",
   rollback_root |-> "/dst/.Rollback/job_20240101_000000",
   status |-> status, ops |-> ops]

\* asdict(op)
OpDict(op) ==
  << <<"action", JsonStr(op.action)>>, <<"target", JsonStr(op.target)>>,
     <<"backup", ToJson(op.backup)>> >>

\* The dict "serializable" of save_journal, as json.dump writes it.
JournalDoc(j) ==
  << <<"job_name", JsonStr(j.job_name)>>, <<"timestamp", JsonStr(j.timestamp)>>,
     <<"dest_root", JsonStr(j.dest_root)>>,
     <<"rollback_root", JsonStr(j.rollback_root)>>,
     <<"status", ToJson(j.status)>>,
     <<"ops", JsonArray([i \in 1..Len(j.ops) |-> OpDict(j.ops[i])])>> >>

\* A JournalOp(**op) that forgets the backup.
OpFromDictNoBackup(d) ==
  [action |-> FromJson(Get(d, "action")), target |-> FromJson(Get(d, "target")),
   backup |-> None]

\* JournalOp(**op): backup defaults to None.
OpFromDict(d) ==
  [action |-> FromJson(Get(d, "action")), target |-> FromJson(Get(d, "target")),
   backup |-> IF HasKey(d, "backup") THEN FromJson(Get(d, "backup")) ELSE None]

\* load_journal on a document that has the required fields: status defaults to
\* "pending", ops to the empty list.
load_journal(doc) ==
  [job_name |-> FromJson(Get(doc, "job_name")),
   timestamp |-> FromJson(Get(doc, "timestamp")),
   dest_root |-> FromJson(Get(doc, "dest_root")),
   rollback_root |-> FromJson(Get(doc, "rollback_root")),
   status |-> IF HasKey(doc, "status") THEN FromJson(Get(doc, "status"))
              ELSE "pending",
   ops |-> IF HasKey(doc, "ops")
           THEN [i \in 1..Len(Get(doc, "ops").items) |->
                   OpFromDict(Get(doc, "ops").items[i])]
           ELSE <<>>]

\* The statuses and ops a journal may hold, known or not.
JrStatuses == {"pending", "success", "cancelled", "rolled_back", "rollback_failed",
               "bogus"}
JrOps == [action : AllActions \cup {"bogus"}, target : {"/dst/a.txt", "/dst/b"},
          backup : {None, "/dst/.Rollback/job_20240101_000000/a.txt"}]

JrFrozen == <<mode, verify, run, dryRun, resume, sdir, sfile, dfq, cancelled,
              cancelEvent, queue, unfinished, wk, dfs, ddirs, backups, pjstatus,
              cp, pcp, stats, rbIdx>>

JrInit ==
  /\ mode = "sync" /\ verify = FALSE
  /\ run = 0 /\ dryRun = FALSE /\ resume = FALSE
  /\ opc = "jrmem"
  /\ sdir = 0 /\ sfile = 0 /\ dfq = 0
  /\ cancelled = FALSE /\ cancelEvent = FALSE
  /\ queue = <<>> /\ unfinished = 0
  /\ wk = [w \in Workers |-> IdleWorker]
  /\ dfs = EmptyDst /\ ddirs = {} /\ backups = EmptyDst
  /\ jops = <<>> /\ jstatus \in JrStatuses
  /\ pjops = <<>> /\ pjstatus = "none"
  /\ cp = NoCp /\ pcp = NoCp
  /\ stats = ZeroStats
  /\ rbIdx = 0
  /\ hist = [saved |-> <<>>, loaded |-> Journal("pending", <<>>)]

\* journal.ops.append(op)
JrAppend(op) ==
  /\ opc = "jrmem" /\ Len(jops) < MaxOps
  /\ jops' = Append(jops, op)
  /\ UNCHANGED <<opc, jstatus, pjops, hist>>
  /\ UNCHANGED JrFrozen

\* save_journal of the journal in memory: the one that was built, or the one
\* load_journal returned.
JrSave ==
  /\ opc \in {"jrmem", "jrloaded"}
  /\ pjops' = JournalDoc(IF opc = "jrmem" THEN Journal(jstatus, jops) ELSE hist.loaded)
  /\ hist' = IF opc = "jrmem" THEN [hist EXCEPT !.saved = pjops'] ELSE hist
  /\ opc' = IF opc = "jrmem" THEN "jrsaved" ELSE "jrresaved"
  /\ UNCHANGED <<jops, jstatus>>
  /\ UNCHANGED JrFrozen

\* load_journal of the file.
JrLoad ==
  /\ opc = "jrsaved"
  /\ hist' = [hist EXCEPT !.loaded = load_journal(pjops)]
  /\ opc' = "jrloaded"
  /\ UNCHANGED <<jops, jstatus, pjops>>
  /\ UNCHANGED JrFrozen

JrNext ==
  \/ \E op \in JrOps : JrAppend(op)
  \/ JrSave
  \/ JrLoad

JrSpec == JrInit /\ [][JrNext]_vars

C23_SnapshotOnlyOfSuccess ==
  (RunOver /\ hist.emitted # "none") => (jstatus = "success" /\ pjstatus = "success")

\* C24: no step of a dry-run creates, replaces, moves or deletes a regular
\* file of the destination outside the reserved trees, none creates or removes
\* a destination directory (the .DiskSyncPro directory of save_journal aside),
\* and none touches the checkpoint file.
C24_DryRunLeavesDestination ==
  [][(dryRun /\ dryRun' /\ run' = run) =>
       /\ UserFiles(dfs') = UserFiles(dfs)
       /\ ddirs' \ {MetaDir} = ddirs \ {MetaDir}
       /\ pcp' = pcp /\ cp' = NoCp]_vars

\* C25: at the end of a successful safety_net run (not a dry run) every file
\* that a copy has overwritten (a replace_file op names it) has had its
\* previous content moved under .SafetyNet.
C25_OverwrittenGoesToSafetyNet ==
  (RunOver /\ mode = "safety_net" /\ ~dryRun /\ jstatus = "success") =>
    \A i \in 1..Len(jops) :
      jops[i].action = "replace_file" => jops[i].target \in hist.quarantined

\* ------------------------------------------------------------ the mutexes
\* The planner (thread 0, the thread that runs perform_backup) and the workers
\* while the workers are running, seen through what they do with journal_lock,
\* stats_lock, cp_lock and progress_lock and with the data these guard.  In
\* this specification wk[t] is [prog, pc, held]: the piece of code thread t is
\* in ("none" when between two pieces), the next instruction of it, and the
\* locks the thread holds; hist.unguarded collects the accesses made without
\* the lock of the item accessed.
LkThreads == 0..NumWorkers

Acq(l) == [op |-> "acq", on |-> l]
Rel(l) == [op |-> "rel", on |-> l]
Use(x) == [op |-> "use", on |-> x]

\* report_progress: "with progress_lock".
ReportProgress == <<Acq("progress"), Rel("progress")>>

\* add_processed_file_safe: "with cp_lock" around the test, the add, the
\* counter and the periodic save_checkpoint.
AddProcessed == <<Acq("cp"), Use("cp"), Rel("cp")>>

\* worker, same-file branch: stats under stats_lock, add_processed_file_safe,
\* report_progress, and report_progress again in the finally clause.
WorkerSame ==
  <<Acq("stats"), Use("stats"), Rel("stats")>> \o AddProcessed \o ReportProgress
    \o ReportProgress

\* A copy_with_retry that updates the stats while it still holds journal_lock.
WorkerCopyNested ==
  <<Acq("journal"), Use("journal"), Acq("stats"), Use("stats"), Rel("stats"),
    Rel("journal")>> \o AddProcessed \o ReportProgress

\* worker, copy branch: copy_with_retry appends the op under journal_lock,
\* then counts under stats_lock; add_processed_file_safe; report_progress.
WorkerCopy ==
  <<Acq("journal"), Use("journal"), Rel("journal"),
    Acq("stats"), Use("stats"), Rel("stats")>> \o AddProcessed \o ReportProgress

\* worker, copy failed on every attempt: copy_failed under stats_lock.
WorkerFail == <<Acq("stats"), Use("stats"), Rel("stats")>> \o ReportProgress

\* planner, top of the walk loop for a directory: reads cp["processed_dirs"],
\* then ensure_dir appends create_dir and counts created_dirs.
PlannerDir == <<Use("cp"), Use("journal"), Use("stats")>>

\* planner, an excluded file: skipped_excluded under stats_lock.
PlannerExcluded == <<Acq("stats"), Use("stats"), Rel("stats")>>

\* planner, a file to queue: reads cp["processed"]; at the end of the
\* directory it may add to cp["processed_dirs"].
PlannerFile == <<Use("cp"), Use("cp")>>

\* planner, cancel path: save_checkpoint under cp_lock while workers may
\* still be inside a task.
PlannerSave == <<Acq("cp"), Use("cp"), Rel("cp")>>

Program(name) ==
  CASE name = "WorkerSame"      -> WorkerSame
    [] name = "WorkerCopy"      -> WorkerCopy
    [] name = "WorkerFail"      -> WorkerFail
    [] name = "PlannerDir"      -> PlannerDir
    [] name = "PlannerExcluded" -> PlannerExcluded
    [] name = "PlannerFile"     -> PlannerFile
    [] name = "PlannerSave"     -> PlannerSave
    [] OTHER                    -> <<>>

ProgramsOf(t) ==
  IF t = 0 THEN {"PlannerDir", "PlannerExcluded", "PlannerFile", "PlannerSave"}
  ELSE {"WorkerSame", "WorkerCopy", "WorkerFail"}

LkIdle == [prog |-> "none", pc |-> 0, held |-> {}]

LkFrozen == <<mode, verify, run, dryRun, resume, opc, sdir, sfile, dfq, cancelled,
              cancelEvent, queue, unfinished, dfs, ddirs, backups, jops, jstatus,
              pjops, pjstatus, cp, pcp, stats, rbIdx>>

LkInit ==
  /\ mode = "sync" /\ verify = FALSE
  /\ run = 1 /\ dryRun = FALSE /\ resume = FALSE
  /\ opc = "scan"
  /\ sdir = 0 /\ sfile = 0 /\ dfq = 0
  /\ cancelled = FALSE /\ cancelEvent = FALSE
  /\ queue = <<>> /\ unfinished = 0
  /\ wk = [t \in LkThreads |-> LkIdle]
  /\ dfs = EmptyDst /\ ddirs = {} /\ backups = EmptyDst
  /\ jops = <<>> /\ jstatus = "pending"
  /\ pjops = <<>> /\ pjstatus = "pending"
  /\ cp = NoCp /\ pcp = NoCp
  /\ stats = ZeroStats
  /\ rbIdx = 0
  /\ hist = [unguarded |-> {}]

Instr(t) == Program(wk[t].prog)[wk[t].pc]
AtInstr(t, o) ==
  /\ wk[t].pc >= 1 /\ wk[t].pc <= Len(Program(wk[t].prog))
  /\ Instr(t).op = o

\* Thread t enters one of its pieces of code.
LkBegin(t, name) ==
  /\ wk[t].pc = 0 /\ name \in ProgramsOf(t)
  /\ wk' = [wk EXCEPT ![t] = [prog |-> name, pc |-> 1, held |-> {}]]
  /\ UNCHANGED hist /\ UNCHANGED LkFrozen

\* "with lock:" entered: threading.Lock is taken when no thread holds it.
LkAcquire(t) ==
  /\ AtInstr(t, "acq")
  /\ \A u \in LkThreads : Instr(t).on \notin wk[u].held
  /\ wk' = [wk EXCEPT ![t].held = @ \cup {Instr(t).on}, ![t].pc = @ + 1]
  /\ UNCHANGED hist /\ UNCHANGED LkFrozen

\* A read or write of journal.ops, of the stats or of the checkpoint sets.
LkUse(t) ==
  /\ AtInstr(t, "use")
  /\ hist' = IF Instr(t).on \in wk[t].held THEN hist
             ELSE [hist EXCEPT !.unguarded = @ \cup {<<wk[t].prog, Instr(t).on>>}]
  /\ wk' = [wk EXCEPT ![t].pc = @ + 1]
  /\ UNCHANGED LkFrozen

\* End of a with block.
LkRelease(t) ==
  /\ AtInstr(t, "rel")
  /\ wk' = [wk EXCEPT ![t].held = @ \ {Instr(t).on}, ![t].pc = @ + 1]
  /\ UNCHANGED hist /\ UNCHANGED LkFrozen

\* The piece of code is over.
LkEnd(t) ==
  /\ wk[t].pc = Len(Program(wk[t].prog)) + 1
  /\ wk' = [wk EXCEPT ![t] = LkIdle]
  /\ UNCHANGED hist /\ UNCHANGED LkFrozen

LkNext ==
  \/ \E t \in LkThreads, name \in ProgramsOf(0) \cup ProgramsOf(1) : LkBegin(t, name)
  \/ \E t \in LkThreads : LkAcquire(t)
  \/ \E t \in LkThreads : LkUse(t)
  \/ \E t \in LkThreads : LkRelease(t)
  \/ \E t \in LkThreads : LkEnd(t)

LkSpec == LkInit /\ [][LkNext]_vars

\* Thread t is blocked at the entry of a with block.
Waiting(t) ==
  AtInstr(t, "acq") /\ \E u \in LkThreads : Instr(t).on \in wk[u].held

\* C26: while the workers run, every access to the journal op list and to the
\* checkpoint sets is made holding the journal mutex, respectively the
\* checkpoint mutex.
C26_SharedDataUnderItsMutex ==
  \A a \in hist.unguarded : a[2] \notin {"journal", "cp"}

\* C27: no thread holds two of journal_lock, stats_lock and cp_lock at a time,
\* and a thread blocked on one of them waits for a thread that is not blocked.
C27_OneMutexAtATime ==
  /\ \A t \in LkThreads :
       Cardinality(wk[t].held \cap {"journal", "stats", "cp"}) <= 1
  /\ \A t \in LkThreads :
       Waiting(t) => \E u \in LkThreads :
                       Instr(t).on \in wk[u].held /\ ~Waiting(u)

C27_Witness ==
  /\ Waiting(0) /\ Instr(0).on = "cp"
  /\ wk[1].prog = "WorkerCopy" /\ wk[1].held = {"cp"}

\* The mutation op stands for has been performed on destination (files, dirs)
\* with vault vault.
Performed(op, files, dirs, vault) ==
  CASE op.action \in {"create_file", "replace_file"} -> files[op.target] # None
    [] op.action = "create_dir" -> op.target \in dirs
    [] op.action = "delete_file" /\ op.backup ->
         files[op.target] = None /\ vault[op.target] # None
    [] OTHER -> op.target \notin dirs

\* C28: whenever ops are appended to the journal, the mutation of each has been
\* performed: the created or replaced file exists, the created directory
\* exists, the deleted file is gone and sits at its backup path.
C28_OpsFollowTheirMutation ==
  [][\A i \in (Len(jops) + 1)..Len(jops') :
       Performed(jops'[i], dfs', ddirs', backups')]_vars

\* C29: in a run that is not a dry-run, whenever a replace_file op is appended
\* it names a backup and the pre-image of the replaced file exists there.
C29_ReplaceHasPreImage ==
  [][~dryRun' =>
       \A i \in (Len(jops) + 1)..Len(jops') :
         jops'[i].action = "replace_file" =>
           (jops'[i].backup /\ backups'[jops'[i].target] # None)]_vars

\* C30: in a run that is not a dry-run the ops of the journal stand in the
\* order in which their mutations were committed.
C30_JournalOrderIsCommitOrder ==
  ~dryRun => jops = SelectSeq(hist.commits, LAMBDA o : o \in SeqRange(jops))

\* ------------------------------------------------- the task queue protocol
\* The worker loop of perform_backup statement by statement, with the planner
\* that feeds task_queue and the stage table.  A task is a number; what the
\* worker finds for it (same file, copy succeeds, copy fails, an exception) is
\* an input of the step.
MaxTasks == 2
QueueCap == 2
SaveEvery == 2

QTasks == 1..MaxTasks
StageKeys == {"STAGE_1_SCAN", "STAGE_2_COPY", "STAGE_3_CLEANUP", "STAGE_4_SNAPSHOT"}

\* count_total_files_for_job: the files of the source the planner would enqueue.
total_files == MaxTasks

QWorker == [pc |-> "top", task |-> 0, ticks |-> 0]

QFrozen == <<mode, verify, run, dryRun, sdir, dfq, dfs, ddirs, backups, jops,
             jstatus, pjops, pjstatus, pcp, rbIdx>>

\* The state after the worker threads have been started.  cp.bad: the run
\* resumes from a checkpoint file whose processed_files are numbers, which
\* load_or_init_checkpoint accepts; cp.counter is checkpoint_save_counter.
QInit ==
  /\ mode = "sync" /\ verify = FALSE
  /\ run = 1 /\ dryRun = FALSE
  /\ resume \in BOOLEAN
  /\ opc = "qstart"
  /\ sdir = 0 /\ sfile = 0 /\ dfq = 0
  /\ cancelled = FALSE /\ cancelEvent = FALSE
  /\ queue = <<>> /\ unfinished = 0
  /\ wk = [w \in Workers |-> QWorker]
  /\ dfs = EmptyDst /\ ddirs = {} /\ backups = EmptyDst
  /\ jops = <<>> /\ jstatus = "pending"
  /\ pjops = <<>> /\ pjstatus = "pending"
  /\ cp = [processed |-> {}, counter |-> 0, bad |-> resume]
  /\ pcp = NoCp
  /\ stats = ZeroStats
  /\ rbIdx = 0
  /\ hist = [stages |-> [k \in StageKeys |-> "pending"],
             progress |-> 0, copier |-> {}, late |-> {}, early |-> {},
             recorded |-> {}, done |-> [t \in QTasks |-> 0],
             ticked |-> [t \in QTasks |-> 0]]

\* update_stage(stage_key, status) on the stage table.
update_stage(h, key, status) == [h EXCEPT !.stages[key] = status]

\* ---- the planner
\* The try block is entered: STAGE 1 is running.
QScanStart ==
  /\ opc = "qstart"
  /\ opc' = "qscan"
  /\ hist' = update_stage(hist, "STAGE_1_SCAN", "running")
  /\ UNCHANGED <<QFrozen, resume, sfile, cancelled, cancelEvent, queue, unfinished,
                 wk, cp, stats>>

\* task_queue.put of the next file of the walk; put blocks while the queue
\* is full.
QPut ==
  /\ opc = "qscan"
  /\ sfile < MaxTasks
  /\ Len(queue) < QueueCap
  /\ queue' = Append(queue, sfile + 1)
  /\ unfinished' = unfinished + 1
  /\ sfile' = sfile + 1
  /\ UNCHANGED <<QFrozen, resume, opc, cancelled, cancelEvent, wk, cp, stats, hist>>

\* tui.check_cancel_key() answers yes during the walk: the event is set, the
\* walk is left, STAGE 1 is completed and STAGE 2 running.
QCancelKey ==
  /\ opc = "qscan"
  /\ cancelEvent' = TRUE /\ cancelled' = TRUE
  /\ opc' = "qpostscan"
  /\ hist' = update_stage(update_stage(hist, "STAGE_1_SCAN", "completed"),
                          "STAGE_2_COPY", "running")
  /\ UNCHANGED <<QFrozen, resume, sfile, queue, unfinished, wk, cp, stats>>

\* An end of the walk that starts STAGE 2 and leaves STAGE 1 running.
QScanEndStillRunning ==
  /\ opc = "qscan"
  /\ opc' = "qpostscan"
  /\ hist' = update_stage(hist, "STAGE_2_COPY", "running")
  /\ UNCHANGED <<QFrozen, resume, sfile, cancelled, cancelEvent, queue, unfinished,
                 wk, cp, stats>>

\* The walk ends (the source may hold fewer files than were counted).
QScanEnd ==
  /\ opc = "qscan"
  /\ opc' = "qpostscan"
  /\ hist' = update_stage(update_stage(hist, "STAGE_1_SCAN", "completed"),
                          "STAGE_2_COPY", "running")
  /\ UNCHANGED <<QFrozen, resume, sfile, cancelled, cancelEvent, queue, unfinished,
                 wk, cp, stats>>

\* An exception leaves the try block during a stage (ensure_dir in the scan,
\* src_file.exists in the cleanup pass, build_snapshot): the handler replays
\* the journal and the finally block follows.  No stage status is updated.
QRaise ==
  /\ opc \in {"qscan", "qcleanup", "qsnapshot"}
  /\ opc' = "qfinally"
  /\ UNCHANGED <<QFrozen, resume, sfile, cancelled, cancelEvent, queue, unfinished,
                 wk, cp, stats, hist>>

\* sorted() in save_checkpoint raises TypeError on a set that mixes the
\* numbers of the loaded file with path strings.
SaveRaises(c) == c.bad /\ c.processed # {}

\* "if not cancelled: task_queue.join()", then the final save_checkpoint and
\* STAGE 2 completed, STAGE 3 running.
QJoin ==
  /\ opc = "qpostscan" /\ ~cancelled
  /\ unfinished = 0
  /\ IF SaveRaises(cp)
     THEN opc' = "qfinally" /\ hist' = hist
     ELSE /\ opc' = "qcleanup"
          /\ hist' = update_stage(update_stage(hist, "STAGE_2_COPY", "completed"),
                                  "STAGE_3_CLEANUP", "running")
  /\ UNCHANGED <<QFrozen, resume, sfile, cancelled, cancelEvent, queue, unfinished,
                 wk, cp, stats>>

\* The cancel path: STAGE 2, 3 and 4 are marked failed and perform_backup
\* returns through its finally block.
QCancelPath ==
  /\ opc = "qpostscan" /\ cancelled
  /\ opc' = "qfinally"
  /\ hist' = update_stage(update_stage(update_stage(hist,
                "STAGE_2_COPY", "failed"), "STAGE_3_CLEANUP", "failed"),
                "STAGE_4_SNAPSHOT", "failed")
  /\ UNCHANGED <<QFrozen, resume, sfile, cancelled, cancelEvent, queue, unfinished,
                 wk, cp, stats>>

\* STAGE 3 ends, STAGE 4 starts.
QCleanup ==
  /\ opc = "qcleanup"
  /\ opc' = "qsnapshot"
  /\ hist' = update_stage(update_stage(hist, "STAGE_3_CLEANUP", "completed"),
                          "STAGE_4_SNAPSHOT", "running")
  /\ UNCHANGED <<QFrozen, resume, sfile, cancelled, cancelEvent, queue, unfinished,
                 wk, cp, stats>>

\* STAGE 4 ends.
QSnapshot ==
  /\ opc = "qsnapshot"
  /\ opc' = "qfinally"
  /\ hist' = update_stage(hist, "STAGE_4_SNAPSHOT", "completed")
  /\ UNCHANGED <<QFrozen, resume, sfile, cancelled, cancelEvent, queue, unfinished,
                 wk, cp, stats>>

\* The finally block sets the cancel event.
QFinally ==
  /\ opc = "qfinally"
  /\ cancelEvent' = TRUE
  /\ opc' = "qjoin"
  /\ UNCHANGED <<QFrozen, resume, sfile, cancelled, queue, unfinished, wk, cp,
                 stats, hist>>

\* t.join for every worker.
QJoinWorkers ==
  /\ opc = "qjoin"
  /\ \A w \in Workers : wk[w].pc = "exited"
  /\ opc' = "qdone"
  /\ UNCHANGED <<QFrozen, resume, sfile, cancelled, cancelEvent, queue, unfinished,
                 wk, cp, stats, hist>>

\* ---- the worker
\* "if cancel_event.is_set()" at the top of the loop.
QTop(w) ==
  /\ wk[w].pc = "top"
  /\ wk' = [wk EXCEPT ![w].pc = IF cancelEvent THEN "drain" ELSE "get"]
  /\ UNCHANGED <<QFrozen, resume, opc, sfile, cancelled, cancelEvent, queue,
                 unfinished, cp, stats, hist>>

\* The drain loop: get_nowait and task_done until Empty, then break.
QDrain(w) ==
  /\ wk[w].pc = "drain"
  /\ IF queue = <<>>
     THEN /\ wk' = [wk EXCEPT ![w].pc = "exited"]
          /\ UNCHANGED <<queue, unfinished, hist>>
     ELSE /\ queue' = Tail(queue)
          /\ unfinished' = unfinished - 1
          /\ hist' = [hist EXCEPT !.done[Head(queue)] = @ + 1,
                                  !.late = @ \cup {Head(queue)}]
          /\ wk' = wk
  /\ UNCHANGED <<QFrozen, resume, opc, sfile, cancelled, cancelEvent, cp, stats>>

\* task_queue.get(timeout=0.5): a task, or Empty when the time is up.
QGet(w) ==
  /\ wk[w].pc = "get"
  /\ IF queue = <<>>
     THEN /\ wk' = [wk EXCEPT ![w].pc = "empty"]
          /\ UNCHANGED <<queue, hist>>
     ELSE /\ wk' = [wk EXCEPT ![w].pc = "check1", ![w].task = Head(queue),
                              ![w].ticks = 0]
          /\ queue' = Tail(queue)
          /\ hist' = IF cancelEvent THEN [hist EXCEPT !.late = @ \cup {Head(queue)}]
                     ELSE hist
  /\ UNCHANGED <<QFrozen, resume, opc, sfile, cancelled, cancelEvent, unfinished,
                 cp, stats>>

\* "except Empty: if cancel_event.is_set(): break; continue".
QEmpty(w) ==
  /\ wk[w].pc = "empty"
  /\ wk' = [wk EXCEPT ![w].pc = IF cancelEvent THEN "exited" ELSE "top"]
  /\ UNCHANGED <<QFrozen, resume, opc, sfile, cancelled, cancelEvent, queue,
                 unfinished, cp, stats, hist>>

\* A dequeued task that is never looked at for the cancel event.
AfterDequeueUnchecked(ev) == "same"

\* The cancel test after the dequeue ("continue" runs the finally block).
AfterDequeue(ev) == IF ev THEN "finally" ELSE "same"

\* The cancel test before the copy call.
BeforeCopy(ev) == IF ev THEN "finally" ELSE "copy"

QCheckDequeued(w) ==
  /\ wk[w].pc = "check1"
  /\ wk' = [wk EXCEPT ![w].pc = AfterDequeue(cancelEvent)]
  /\ UNCHANGED <<QFrozen, resume, opc, sfile, cancelled, cancelEvent, queue,
                 unfinished, cp, stats, hist>>

\* The work on a task has begun while STAGE 1 was not completed.
Early(h, t) ==
  IF h.stages["STAGE_1_SCAN"] # "completed" THEN [h EXCEPT !.early = @ \cup {t}] ELSE h

\* The same-file test: the file is the same (skipped_same is counted), it
\* differs, or the test raises (copy_failed is counted, "continue").
QSameCheck(w, result) ==
  /\ wk[w].pc = "same"
  /\ CASE result = "same" ->
            /\ stats' = [stats EXCEPT !.skipped_same = @ + 1]
            /\ wk' = [wk EXCEPT ![w].pc = "addsame"]
       [] result = "differs" ->
            /\ stats' = stats
            /\ wk' = [wk EXCEPT ![w].pc = "check2"]
       [] OTHER ->
            /\ stats' = [stats EXCEPT !.copy_failed = @ + 1]
            /\ wk' = [wk EXCEPT ![w].pc = "finally"]
  /\ hist' = Early(hist, wk[w].task)
  /\ UNCHANGED <<QFrozen, resume, opc, sfile, cancelled, cancelEvent, queue,
                 unfinished, cp>>

\* add_processed_file_safe on the checkpoint: the path is added, and every
\* SaveEvery additions save_checkpoint is called.
AddProcessedFile(c, t) ==
  IF t \in c.processed THEN c
  ELSE [c EXCEPT !.processed = @ \cup {t},
                 !.counter = IF @ + 1 >= SaveEvery /\ ~c.bad THEN 0 ELSE @ + 1]

\* add_processed_file_safe raises: the save it makes raises.
AddRaises(c, t) ==
  /\ t \notin c.processed
  /\ c.counter + 1 >= SaveEvery
  /\ SaveRaises(AddProcessedFile(c, t))

\* report_progress: current_processed is incremented and capped.
report_progress(n) == IF n + 1 > total_files THEN total_files ELSE n + 1

\* The rest of the same-file branch: add_processed_file_safe, report_progress,
\* "continue"; an exception of add_processed_file_safe is caught by the
\* "except Exception" of the same-file test, which counts copy_failed.
QAddSame(w) ==
  /\ wk[w].pc = "addsame"
  /\ cp' = AddProcessedFile(cp, wk[w].task)
  /\ IF AddRaises(cp, wk[w].task)
     THEN /\ stats' = [stats EXCEPT !.copy_failed = @ + 1]
          /\ wk' = [wk EXCEPT ![w].pc = "finally"]
          /\ hist' = [hist EXCEPT !.recorded = @ \cup {wk[w].task}]
     ELSE /\ stats' = stats
          /\ wk' = [wk EXCEPT ![w].pc = "finally", ![w].ticks = @ + 1]
          /\ hist' = [hist EXCEPT !.recorded = @ \cup {wk[w].task},
                                  !.progress = report_progress(@)]
  /\ UNCHANGED <<QFrozen, resume, opc, sfile, cancelled, cancelEvent, queue,
                 unfinished>>

QCheckBeforeCopy(w) ==
  /\ wk[w].pc = "check2"
  /\ wk' = [wk EXCEPT ![w].pc = BeforeCopy(cancelEvent)]
  /\ UNCHANGED <<QFrozen, resume, opc, sfile, cancelled, cancelEvent, queue,
                 unfinished, cp, stats, hist>>

\* copy_with_retry as a whole: it returns True and has counted created_files
\* or replaced_files, it returns False and has counted copy_failed, or it
\* raises before its retry loop (the worker's handler counts copy_failed).
QCopy(w, result) ==
  /\ wk[w].pc = "copy"
  /\ CASE result = "created" ->
            /\ stats' = [stats EXCEPT !.created_files = @ + 1]
            /\ wk' = [wk EXCEPT ![w].pc = "addcopied"]
       [] result = "replaced" ->
            /\ stats' = [stats EXCEPT !.replaced_files = @ + 1]
            /\ wk' = [wk EXCEPT ![w].pc = "addcopied"]
       [] OTHER ->
            /\ stats' = [stats EXCEPT !.copy_failed = @ + 1]
            /\ wk' = [wk EXCEPT ![w].pc = "finally"]
  /\ hist' = Early([hist EXCEPT !.copier = @ \cup {wk[w].task}], wk[w].task)
  /\ UNCHANGED <<QFrozen, resume, opc, sfile, cancelled, cancelEvent, queue,
                 unfinished, cp>>

\* "if ok: add_processed_file_safe(rel_path)"; an exception goes to the
\* worker's "except Exception", which counts copy_failed.
QAddCopied(w) ==
  /\ wk[w].pc = "addcopied"
  /\ cp' = AddProcessedFile(cp, wk[w].task)
  /\ stats' = IF AddRaises(cp, wk[w].task)
              THEN [stats EXCEPT !.copy_failed = @ + 1] ELSE stats
  /\ wk' = [wk EXCEPT ![w].pc = "finally"]
  /\ hist' = [hist EXCEPT !.recorded = @ \cup {wk[w].task}]
  /\ UNCHANGED <<QFrozen, resume, opc, sfile, cancelled, cancelEvent, queue,
                 unfinished>>

\* "finally: report_progress(); task_queue.task_done()".
QTaskDone(w) ==
  /\ wk[w].pc = "finally"
  /\ unfinished' = unfinished - 1
  /\ hist' = [hist EXCEPT !.progress = report_progress(@),
                          !.done[wk[w].task] = @ + 1,
                          !.ticked[wk[w].task] = wk[w].ticks + 1]
  /\ wk' = [wk EXCEPT ![w].pc = "top", ![w].ticks = @ + 1]
  /\ UNCHANGED <<QFrozen, resume, opc, sfile, cancelled, cancelEvent, queue,
                 cp, stats>>

QPlanner ==
  \/ QScanStart
  \/ QPut
  \/ QScanEnd
  \/ QJoin
  \/ QCancelPath
  \/ QCleanup
  \/ QSnapshot
  \/ QFinally
  \/ QJoinWorkers

QWorkerStep(w) ==
  \/ QTop(w)
  \/ QDrain(w)
  \/ QGet(w)
  \/ QEmpty(w)
  \/ QCheckDequeued(w)
  \/ \E r \in {"same", "differs", "raises"} : QSameCheck(w, r)
  \/ QAddSame(w)
  \/ QCheckBeforeCopy(w)
  \/ \E r \in {"created", "replaced", "failed", "raises"} : QCopy(w, r)
  \/ QAddCopied(w)
  \/ QTaskDone(w)

QNext ==
  \/ QScanStart
  \/ QPut
  \/ QCancelKey
  \/ QScanEnd
  \/ QRaise
  \/ QJoin
  \/ QCancelPath
  \/ QCleanup
  \/ QSnapshot
  \/ QFinally
  \/ QJoinWorkers
  \/ \E w \in Workers : QTop(w)
  \/ \E w \in Workers : QDrain(w)
  \/ \E w \in Workers : QGet(w)
  \/ \E w \in Workers : QEmpty(w)
  \/ \E w \in Workers : QCheckDequeued(w)
  \/ \E w \in Workers, r \in {"same", "differs", "raises"} : QSameCheck(w, r)
  \/ \E w \in Workers : QAddSame(w)
  \/ \E w \in Workers : QCheckBeforeCopy(w)
  \/ \E w \in Workers, r \in {"created", "replaced", "failed", "raises"} : QCopy(w, r)
  \/ \E w \in Workers : QAddCopied(w)
  \/ \E w \in Workers : QTaskDone(w)

\* Every thread that can take a step takes one in the end: the orchestrator
\* (a pressed cancel key and an exception are not owed) and every worker.
QSpec ==
  /\ QInit /\ [][QNext]_vars
  /\ WF_vars(QPlanner)
  /\ \A w \in Workers : WF_vars(QWorkerStep(w))

AllExited == \A w \in Workers : wk[w].pc = "exited"

\* C31: every task is marked done at most once, the wait for the queue of a
\* run that was not cancelled returns in the end, and once the cancel event is
\* set every worker exits in the end, with the queue empty.
C31_QueueDrainsAndWorkersExit ==
  /\ [](\A t \in QTasks : hist.done[t] <= 1)
  /\ ((opc = "qpostscan" /\ ~cancelled) ~> (opc # "qpostscan"))
  /\ (cancelEvent ~> (AllExited /\ queue = <<>>))

\* C32: a task that a worker took from the queue while the cancel event was
\* set is never handed to copy_with_retry and never added to the checkpoint.
C32_LateTaskIsDropped ==
  \A t \in hist.late : t \notin hist.copier /\ t \notin cp.processed

C32_Witness ==
  /\ opc = "qdone"
  /\ \E t \in hist.late : hist.done[t] = 1 /\ t \notin cp.processed

\* C33: every task a worker has worked on (same file, copied, failed) has
\* called report_progress exactly once, and after the copy stage of a fresh
\* run that was not cancelled the processed count is the number of tasks that
\* were enqueued.
C33_OneTickPerTask ==
  /\ \A t \in QTasks : hist.ticked[t] <= 1
  /\ (opc = "qcleanup" /\ ~resume) => hist.progress = sfile

\* The stage that precedes a stage.
PrevStage(k) ==
  CASE k = "STAGE_2_COPY"     -> "STAGE_1_SCAN"
    [] k = "STAGE_3_CLEANUP"  -> "STAGE_2_COPY"
    [] k = "STAGE_4_SNAPSHOT" -> "STAGE_3_CLEANUP"
    [] OTHER                  -> "STAGE_1_SCAN"

\* C34: at most one stage is running, a stage is running only when the stage
\* before it is completed, and no worker has worked on a copy task while the
\* SCAN stage was not completed.
C34_StagesInOrder ==
  /\ Cardinality({k \in StageKeys : hist.stages[k] = "running"}) <= 1
  /\ \A k \in StageKeys \ {"STAGE_1_SCAN"} :
       hist.stages[k] = "running" => hist.stages[PrevStage(k)] = "completed"
  /\ hist.early = {}

\* C34 as amended: at most one stage is running and a stage is running only
\* when the stage before it is completed (the workers take tasks while the
\* SCAN stage is running).
C34_StageStatusesInOrder ==
  /\ Cardinality({k \in StageKeys : hist.stages[k] = "running"}) <= 1
  /\ \A k \in StageKeys \ {"STAGE_1_SCAN"} :
       hist.stages[k] = "running" => hist.stages[PrevStage(k)] = "completed"

C34_Witness ==
  /\ hist.stages["STAGE_4_SNAPSHOT"] = "running"
  /\ hist.stages["STAGE_3_CLEANUP"] = "completed"
  /\ hist.early # {} /\ hist.copier # {}

\* The tasks the four counters of the copy stage account for.
Counted(s) == s.created_files + s.replaced_files + s.skipped_same + s.copy_failed

C37_CleanupKeepsMirroredDirs ==
  [][(opc = "cleanup" /\ opc' = "snapshot") =>
       \A d \in SrcDirs \ {"."} : d \in ddirs => d \in ddirs']_vars

\* C35: a resumed run that ends success without a failed copy has copied
\* every file its checkpoint listed as processed although the destination
\* copy was missing or not same-file equal to the source (hist.stale).
C35_StaleEntriesAreRecopied ==
  (RunOver /\ resume /\ ~dryRun /\ jstatus = "success" /\ stats.copy_failed = 0) =>
    \A f \in hist.stale : is_same_file(dfs[f])

\* C40: after main_rollback has replayed the journal file of a run, a second
\* rollback_journal over the same journal leaves every file, directory and
\* backup of the destination as it is.
C40_SecondReplayChangesNothing ==
  opc = "rolledback" => rollback_journal(pjops, DstState, FALSE) = DstState

C40_Witness ==
  /\ opc = "rolledback" /\ jstatus = "success" /\ mode = "clone" /\ ~dryRun
  /\ hist.pre["a.txt"] = "old" /\ dfs["a.txt"] = "old"
  /\ hist.pre["stale.txt"] = "old" /\ dfs["stale.txt"] = "old"
  /\ dfs["b/c.txt"] = None
  /\ HasOp(pjops, "a.txt", {"replace_file"})
  /\ HasOp(pjops, "b/c.txt", {"create_file"})
  /\ HasOp(pjops, "stale.txt", {"delete_file"})

\* ----------------------------------------------- rollback_journal, op by op
\* rollback_journal on any journal: the ops are drawn from a small set that
\* holds every action and an unknown one, and every iteration of the loop may
\* meet a failure of the filesystem.
MaxRbOps == 3

RbOps == {JournalOp("create_file", "a.txt", FALSE),
          JournalOp("replace_file", "a.txt", TRUE),
          JournalOp("delete_file", "stale.txt", TRUE),
          JournalOp("create_dir", "b", FALSE),
          JournalOp("bogus", "a.txt", FALSE)}

RbJournals == UNION {[1..n -> RbOps] : n \in 0..MaxRbOps}

RbFrozen == <<mode, verify, run, resume, sdir, sfile, dfq, cancelled, cancelEvent,
              queue, unfinished, wk, jstatus, pjops, pjstatus, cp, pcp, stats>>

RbInit ==
  /\ mode = "clone" /\ verify = FALSE
  /\ run = 1 /\ resume = FALSE
  /\ dryRun \in BOOLEAN
  /\ opc = "rbloop"
  /\ sdir = 0 /\ sfile = 0 /\ dfq = 0
  /\ cancelled = FALSE /\ cancelEvent = FALSE
  /\ queue = <<>> /\ unfinished = 0
  /\ wk = [w \in Workers |-> IdleWorker]
  /\ \E a \in {None, "new"} : dfs = [EmptyDst EXCEPT !["a.txt"] = a]
  /\ ddirs \in {{}, {"b"}}
  /\ \E a \in {None, "old"}, x \in {None, "old"} :
       backups = [EmptyDst EXCEPT !["a.txt"] = a, !["stale.txt"] = x]
  /\ jops \in RbJournals
  /\ jstatus = "success"
  /\ pjops = <<>> /\ pjstatus = "success"
  /\ cp = NoCp /\ pcp = NoCp
  /\ stats = ZeroStats
  /\ rbIdx = Len(jops)
  /\ hist = [visited |-> <<>>, touched |-> {}, failed |-> {}]

\* The restore of an op finds both its backup and its target.
CanFailHalfWay(op, fs) ==
  /\ op.action \in {"replace_file", "delete_file"}
  /\ op.backup
  /\ fs.backups[op.target] # None
  /\ fs.files[op.target] # None

\* One iteration of the loop under an outcome of its filesystem calls: "ok",
\* "raises" (the first call raises and the handler of the op or of the
\* iteration catches it) or "half" (target.unlink() succeeded and shutil.move
\* raised).
ReverseOpUnder(op, fs, dry, outcome) ==
  CASE outcome = "ok" -> ReverseOp(op, fs, dry)
    [] outcome = "half" -> [fs EXCEPT !.files[op.target] = None]
    [] OTHER -> fs

\* A loop that gives up at the first op it cannot reverse.
RbStopAtFailure(i, outcome) == IF outcome = "ok" THEN i - 1 ELSE 0

\* The index the loop goes on with: the op before, whatever the outcome.
RbNextIndex(i, outcome) == i - 1

RbStep(outcome) ==
  /\ opc = "rbloop" /\ rbIdx > 0
  /\ outcome = "half" => (~dryRun /\ CanFailHalfWay(jops[rbIdx], DstState))
  /\ LET r == ReverseOpUnder(jops[rbIdx], DstState, dryRun, outcome) IN
     /\ dfs' = r.files
     /\ ddirs' = r.dirs
     /\ backups' = r.backups
     /\ hist' = [hist EXCEPT
                   !.visited = Append(@, rbIdx),
                   !.touched = IF r = DstState THEN @ ELSE @ \cup {rbIdx},
                   !.failed = IF outcome = "ok" THEN @ ELSE @ \cup {rbIdx}]
  /\ rbIdx' = RbNextIndex(rbIdx, outcome)
  /\ UNCHANGED <<RbFrozen, dryRun, opc, jops>>

\* The loop is over: rollback_journal logs its counts and returns.
RbReturn ==
  /\ opc = "rbloop" /\ rbIdx = 0
  /\ opc' = "rbdone"
  /\ UNCHANGED <<RbFrozen, dryRun, jops, dfs, ddirs, backups, rbIdx, hist>>

RbNext ==
  \/ \E o \in {"ok", "raises", "half"} : RbStep(o)
  \/ RbReturn

RbSpec == RbInit /\ [][RbNext]_vars

\* C36: rollback_journal returns after it has visited every op of the
\* journal exactly once, last op first, whatever ops it could not reverse;
\* an op with an unknown action changes nothing.
C36_ReplayVisitsEveryOp ==
  /\ opc = "rbdone" => hist.visited = Downward(Len(jops))
  /\ \A i \in 1..Len(hist.visited) : hist.visited[i] = Len(jops) + 1 - i
  /\ \A i \in hist.touched : jops[i].action \in AllActions

C36_Witness ==
  /\ opc = "rbdone" /\ ~dryRun /\ Len(jops) = 3
  /\ jops[3].action = "replace_file" /\ 3 \in hist.failed
  /\ jops[2].action = "bogus"
  /\ jops[1].action = "delete_file" /\ 1 \in hist.touched

\* The number of ops of a journal with the given action; withBackup asks for
\* the ops that carry a backup path only.
NumOps(ops, action, withBackup) ==
  Cardinality({i \in 1..Len(ops) :
                 ops[i].action = action /\ (withBackup => ops[i].backup)})

\* C38: when a run is over, created_files, replaced_files and created_dirs
\* are the numbers of create_file, replace_file and create_dir ops of the
\* journal, and deleted_files + safetynet_files is the number of delete_file
\* ops that carry a backup path.
C38_StatsAgreeWithJournal ==
  RunOver =>
    /\ stats.created_files = NumOps(jops, "create_file", FALSE)
    /\ stats.replaced_files = NumOps(jops, "replace_file", FALSE)
    /\ stats.created_dirs = NumOps(jops, "create_dir", FALSE)
    /\ stats.deleted_files + stats.safetynet_files = NumOps(jops, "delete_file", TRUE)

C38_Witness ==
  /\ RunOver /\ mode = "clone" /\ ~dryRun /\ jstatus = "success"
  /\ stats.created_files = 1 /\ stats.replaced_files = 1
  /\ stats.created_dirs >= 1 /\ stats.deleted_files = 1
  /\ NumOps(jops, "delete_file", FALSE) > NumOps(jops, "delete_file", TRUE)

====
